---- MODULE Spec2Model ----
(***************************************************************************)
(* Cycle-level model of the WinoFPGA convolution CFU gateware.             *)
(*                                                                         *)
(* The design is one synchronous clock domain.  A state of the model is    *)
(* the value of every register at the start of a clock cycle together     *)
(* with the input signals that are driven during that cycle.  The         *)
(* combinational outputs of a cycle are operators over that state; a      *)
(* step of the model is one clock edge, which commits every                *)
(* `m.d.sync +=` assignment at once and lets the environment choose the   *)
(* inputs of the following cycle.                                          *)
(***************************************************************************)
EXTENDS Integers, Sequences, FiniteSets, TLC

VARIABLES
    seq,        \* registers of the Sequencer and its submodules
    seq_in,     \* Sequencer inputs driven in the current cycle
    cfg,        \* configuration registers read by the Sequencer
    hist,       \* history of the run, kept for the properties only
    ins,        \* registers and memories of the InputStore
    ins_in,     \* InputStore inputs driven in the current cycle
    ins_cfg,    \* configuration registers read by the InputStore
    ins_hist,   \* history of the InputStore, kept for the properties only
    fs,         \* registers and memories of the filter store
    fs_in,      \* filter store inputs driven in the current cycle
    fs_cfg,     \* configuration registers read by the filter store
    fs_hist,    \* history of the filter store, kept for the properties only
    cfu,        \* registers of the CFU's register file and parameter store
    cfu_in,     \* the instruction and queue state of the current cycle
    cfu_cfg,    \* mode registers, set before the first cycle
    cfu_hist,   \* history of the instructions, kept for the bounds only
    mac,        \* registers of the Mul8Pipeline and the AccOrTrans
    mac_in,     \* their inputs driven in the current cycle
    mac_cfg,    \* configuration registers they read
    mac_hist,   \* history of the batches, kept for the properties only
    oq,         \* registers of the output queue
    oq_in,      \* the read enable of the output queue in the current cycle
    btw,        \* register of the ByteToWordShifter
    btw_in,     \* its inputs driven in the current cycle
    btw_hist    \* the bytes shifted in, kept for the properties only

seqVars == <<seq, seq_in, cfg, hist>>
insVars == <<ins, ins_in, ins_cfg, ins_hist>>
fsVars == <<fs, fs_in, fs_cfg, fs_hist>>
cfuVars == <<cfu, cfu_in, cfu_cfg, cfu_hist>>
macVars == <<mac, mac_in, mac_cfg, mac_hist>>
oqVars == <<oq, oq_in>>
btwVars == <<btw, btw_in, btw_hist>>
vars == <<seqVars, insVars, fsVars, cfuVars, macVars, oqVars, btwVars>>

(***************************************************************************)
(* Bounds of the model.                                                    *)
(***************************************************************************)
\* Largest counter maximum (num_tile, filter_value_words/2,
\* input_depth_words/2) that the sequencer is configured with.
MaxCount == 2
\* Number of start_run and restart pulses the environment of the Sequencer
\* issues in one behaviour.
MaxPulses == 2
\* Largest input_depth (words per pixel) the InputStore is configured with.
MaxInputDepth == 6
\* Number of restart pulses the environment of the InputStore issues in one
\* behaviour.
MaxInsRestarts == 1
\* Number of consecutive buffer fillings whose words are all different.
InsGenerations == 4
\* Largest number of filter words written after a restart.
MaxFilterWords == 8
\* Number of restart pulses the environment of the filter store issues in
\* one behaviour.
MaxFsRestarts == 1
\* Number of words software writes to the filter store, and to the
\* InputStore, of the CFU in one behaviour.
MaxCfuWords == 2
\* Number of writes to each other register of the CFU in one behaviour.
MaxCfuWrites == 1
\* Number of gate cycles after which a run of the CFU that does not come to
\* its end is followed no further.
MaxCfuGates == 4
\* Number of patterns of input bytes, and of filter bytes, presented to the
\* multiplier.
MacPatterns == 2
\* Number of add_en pulses between two clears of the accumulator.
MaxMacAdds == 3

(***************************************************************************)
(* Program constants.                                                      *)
(***************************************************************************)
\* Delayer: shift_register = Signal(6)
ShiftRegisterBits == 6
\* Sequencer: mul_delay.cycles in pointwise mode
MulCyclesP == 3
\* Sequencer: mul_delay.cycles in depthwise mode
MulCyclesD == 5
\* Sequencer: four_count.max
FourCountMax == 4
\* Sequencer: four_count = UpCounter(3)
FourCountWidth == 3
\* Sequencer: num_tile = Signal(16), width of fnext_count
NumTileWidth == 16
\* Width of filter_value_words and of f_count.  config.py is not part of
\* the sources; the model scales the register down to a few bits.
FilterWordsWidth == 5
\* Width of input_depth_words and of i_count, scaled down likewise.
InputDepthWidth == 5

Pow2(n) == 2 ^ n

(***************************************************************************)
(* UpCounter (sequencing.py)                                               *)
(***************************************************************************)
\* Mutant of UpCounter_done: done one count late.
UpCounter_done_OneLate(count, en, max) == en /\ count = max

\* done: high in a cycle with en in which count == max - 1.
UpCounter_done(count, en, max) == en /\ count = max - 1

\* Mutant of UpCounter_next: the counter counts every cycle, enabled or not.
UpCounter_next_IgnoreEn(count, en, restart, max, width) ==
    IF restart THEN 0
    ELSE IF count = max - 1 THEN 0 ELSE (count + 1) % Pow2(width)

\* Mutant of UpCounter_next: an enable in the cycle of restart is counted.
UpCounter_next_EnFirst(count, en, restart, max, width) ==
    IF en THEN (IF count = max - 1 THEN 0 ELSE (count + 1) % Pow2(width))
    ELSE IF restart THEN 0
    ELSE count

\* The value of count after the clock edge.  The restart assignment is the
\* last one in elab and therefore wins over the count enabled by en.
UpCounter_next(count, en, restart, max, width) ==
    IF restart THEN 0
    ELSE IF en THEN (IF count = max - 1 THEN 0 ELSE (count + 1) % Pow2(width))
    ELSE count

(***************************************************************************)
(* Delayer (delay.py)                                                      *)
(***************************************************************************)
\* shift_register[k] of the source is sr[k+1] here.
Delayer_output(sr, cycles) ==
    IF cycles = 5 THEN sr[5]
    ELSE IF cycles = 4 THEN sr[4]
    ELSE IF cycles = 3 THEN sr[3]
    ELSE IF cycles = 2 THEN sr[2]
    ELSE sr[1]

Delayer_next(sr, input) == <<input>> \o SubSeq(sr, 1, ShiftRegisterBits - 1)

Delayer_reset == [k \in 1..ShiftRegisterBits |-> FALSE]

(***************************************************************************)
(* GateCalculator (sequencing.py)                                          *)
(***************************************************************************)
\* Mutant of GateCalculator_gate: the FIFO back-pressure is left out.
GateCalculator_gate_NoSpace(running, start_run, ready, has_space) ==
    (running \/ start_run) /\ ready

GateCalculator_gate(running, start_run, ready, has_space) ==
    (running \/ start_run) /\ ready /\ has_space

\* all_output_finished is tested after start_run, so it wins.
GateCalculator_next(running, start_run, all_output_finished) ==
    IF all_output_finished THEN FALSE
    ELSE IF start_run THEN TRUE
    ELSE running

(***************************************************************************)
(* Sequencer (sequencing.py)                                               *)
(*   s: registers, i: inputs of the cycle, c: configuration               *)
(***************************************************************************)
Sequencer_gate(s, i) ==
    GateCalculator_gate(s.running, i.start_run, i.in_store_ready,
                        i.fifo_has_space)

\* f_count.max: filter_value_words[1:] in pointwise mode, num_tile otherwise
Sequencer_f_max(c) ==
    IF c.switch_PorD = 0 THEN c.filter_value_words \div 2
    ELSE c.num_tile % Pow2(FilterWordsWidth)

\* i_count.max: input_depth_words[1:] in pointwise mode, num_tile otherwise
Sequencer_i_max(c) ==
    IF c.switch_PorD = 0 THEN c.input_depth_words \div 2
    ELSE c.num_tile % Pow2(InputDepthWidth)

\* Mutant of Sequencer_mul_cycles: the pointwise latency in either mode.
Sequencer_mul_cycles_AlwaysPointwise(c) == MulCyclesP

Sequencer_mul_cycles(c) == IF c.switch_PorD = 0 THEN MulCyclesP ELSE MulCyclesD

Sequencer_all_output_finished(s, i, c) ==
    UpCounter_done(s.f_count, Sequencer_gate(s, i), Sequencer_f_max(c))

\* Mutant of Sequencer_filter_next: the filter advances with every gate
\* cycle in either mode.
Sequencer_filter_next_EveryGate(s, i, c) == Sequencer_gate(s, i)

Sequencer_filter_next(s, i, c) ==
    IF c.switch_PorD = 0 THEN Sequencer_gate(s, i)
    ELSE UpCounter_done(s.fnext_count, Sequencer_gate(s, i), c.num_tile)

\* Mutant of Sequencer_mul_done: the pulse is taken one stage early.
Sequencer_mul_done_OneEarly(s, c) ==
    Delayer_output(s.mul_delay, Sequencer_mul_cycles(c) - 1)

Sequencer_mul_done(s, c) == Delayer_output(s.mul_delay, Sequencer_mul_cycles(c))

\* Mutant of Sequencer_acc_done: the batch is one pulse longer.
Sequencer_acc_done_OneLate(s, c) ==
    UpCounter_done(s.i_count, Sequencer_mul_done(s, c), Sequencer_i_max(c) + 1)

Sequencer_acc_done(s, c) ==
    UpCounter_done(s.i_count, Sequencer_mul_done(s, c), Sequencer_i_max(c))

Sequencer_pp_done(s, c) == Delayer_output(s.pp_delay, c.pp_cycles)

\* Mutant of Sequencer_out_word_done: every post-processed byte is taken for
\* a whole output word.
Sequencer_out_word_done_EveryByte(s, c) ==
    IF c.switch_PorD = 0 THEN Sequencer_pp_done(s, c)
    ELSE Delayer_output(s.depth2_delay, c.pp_cycles)

Sequencer_out_word_done(s, c) ==
    IF c.switch_PorD = 0
    THEN UpCounter_done(s.four_count, Sequencer_pp_done(s, c), FourCountMax)
    ELSE Delayer_output(s.depth2_delay, c.pp_cycles)

\* Registers after the clock edge.
Sequencer_next(s, i, c) ==
    LET gate     == Sequencer_gate(s, i)
        mul_done == Sequencer_mul_done(s, c)
        pp_done  == Sequencer_pp_done(s, c)
    IN  [ running      |-> GateCalculator_next(s.running, i.start_run,
                               UpCounter_done(s.f_count, gate,
                                              Sequencer_f_max(c))),
          fnext_count  |-> UpCounter_next(s.fnext_count, gate, i.restart,
                               c.num_tile, NumTileWidth),
          f_count      |-> UpCounter_next(s.f_count, gate, i.restart,
                               Sequencer_f_max(c), FilterWordsWidth),
          i_count      |-> UpCounter_next(s.i_count, mul_done, i.restart,
                               Sequencer_i_max(c), InputDepthWidth),
          four_count   |-> UpCounter_next(s.four_count, pp_done, i.restart,
                               FourCountMax, FourCountWidth),
          mul_delay    |-> Delayer_next(s.mul_delay, gate),
          pp_delay     |-> Delayer_next(s.pp_delay,
                               UpCounter_done(s.i_count, mul_done,
                                              Sequencer_i_max(c))),
          depth2_delay |-> Delayer_next(s.depth2_delay, mul_done) ]

Sequencer_reset ==
    [ running |-> FALSE, fnext_count |-> 0, f_count |-> 0, i_count |-> 0,
      four_count |-> 0, mul_delay |-> Delayer_reset,
      pp_delay |-> Delayer_reset, depth2_delay |-> Delayer_reset ]

(***************************************************************************)
(* Words, bytes and lanes                                                  *)
(***************************************************************************)
Min(a, b) == IF a < b THEN a ELSE b

\* A 32-bit word is the tuple of its four bytes, least significant first,
\* each an unsigned value.
ZeroWord == <<0, 0, 0, 0>>

\* Byte j (0 = least significant) of a word.
WordByte(w, j) == w[j + 1]

\* Value.as_signed() of an 8-bit slice.
Signed8(b) == IF b >= 128 THEN b - 256 ELSE b

\* The value a signed(12) signal, or a 12-bit slice read back as_signed(),
\* holds after it is assigned x.
Signed12(x) == ((x + 2048) % 4096) - 2048

\* cut(Cat(words), k, 8).as_signed(): byte k of the concatenation of a tuple
\* of words, 0 beyond the words given.
CatByte(words, k) ==
    IF (k \div 4) + 1 <= Len(words)
    THEN Signed8(WordByte(words[(k \div 4) + 1], k % 4))
    ELSE 0

(***************************************************************************)
(* SequentialMemoryReader (amaranth_cfu), as instantiated by the stores.   *)
(* The reader presents the address of the word after the current one, so  *)
(* that the memory, which answers one cycle late, has it ready on next.    *)
(***************************************************************************)
SMR_reset ==
    [ was_restart |-> FALSE, was_next |-> FALSE, last_mem_addr |-> 0,
      last_data |-> ZeroWord ]

\* mem_addr output in a cycle; depth is the range of the address signal.
SMR_mem_addr(s, restart, limit, depth) ==
    IF restart THEN 0
    ELSE IF s.was_next \/ s.was_restart
         THEN (IF s.last_mem_addr = limit - 1 THEN 0
               ELSE (s.last_mem_addr + 1) % depth)
         ELSE s.last_mem_addr

\* data output in a cycle.
SMR_data(s, mem_data) ==
    IF s.was_restart \/ s.was_next THEN mem_data ELSE s.last_data

SMR_next(s, restart, next, limit, depth, mem_data) ==
    [ was_restart   |-> restart,
      was_next      |-> next,
      last_mem_addr |-> SMR_mem_addr(s, restart, limit, depth),
      last_data     |-> SMR_data(s, mem_data) ]

(***************************************************************************)
(* InputStore (store.py)                                                   *)
(*   s: registers and memories, i: inputs of the cycle, c: configuration  *)
(* Bank n of the source is index n + 1 of the tuples smr, dp_r and mem;   *)
(* buffer b is index b + 1 of r_full; lane n is index n + 1 of r_data.    *)
(***************************************************************************)
\* Words per bank and buffer: max_depth // 2, the range of reader addresses.
\* config.MAX_PER_PIXEL_INPUT_WORDS is not part of the sources; the model
\* scales the store down to two words per bank and buffer.
InsHalfDepth == 2
\* Range of input_depth, w_addr and r_addr: range(max_depth * 4 // 2)
InsAddrRange == 4 * InsHalfDepth
\* input_width_count = UpCounter(8)
InputWidthCountWidth == 8
Banks == 0..3

\* Mutant of InputStore_w_ready: the store accepts words into a full buffer.
InputStore_w_ready_Always(s) == TRUE

InputStore_w_ready(s) == ~s.r_full[s.w_curr_buf + 1]

InputStore_full(s) == s.r_full[s.r_curr_buf + 1]

\* A word is stored in this cycle.
InputStore_accept(s, i) == i.w_en /\ InputStore_w_ready(s)

\* The stored word is the last one of the buffer.
InputStore_complete(s, i, c) ==
    InputStore_accept(s, i) /\ s.w_addr = c.input_depth - 1

\* full & ~last_full
InputStore_rising(s) == InputStore_full(s) /\ ~s.last_full

\* r_next & r_ready
InputStore_reading(s, i) == i.r_next /\ s.r_ready

InputStore_iwc_en(s, i, c) ==
    InputStore_reading(s, i) \/ (InputStore_rising(s) /\ c.switch_PorD = 1)

InputStore_iwc_max(c) == (c.input_width - 1) % Pow2(InputWidthCountWidth)

InputStore_iwc_done(s, i, c) ==
    UpCounter_done(s.iwc, InputStore_iwc_en(s, i, c), InputStore_iwc_max(c))

InputStore_smr_limit(c, n) == (c.input_depth + 3 - n) \div 4

InputStore_smr_restart(s, c) == InputStore_rising(s) /\ c.switch_PorD = 0

\* smr_nexts[r_addr[:2]] and smr_nexts[r_addr[:2] + 1]; an index past the
\* end of an Array selects its last element.
InputStore_smr_next(s, i, c, n) ==
    /\ InputStore_reading(s, i)
    /\ c.switch_PorD = 0
    /\ \/ n = s.r_addr % 4
       \/ n = Min((s.r_addr % 4) + 1, 3)

\* mem_addrs[n] of the depthwise read: the 2x2 block at r_addr, r_addr + 1,
\* r_addr + input_width + pad and r_addr + input_width + pad + 1.  The
\* assignments are made in this order, so the last one to name bank n wins.
InputStore_mem_addrs(s, i, c, n) ==
    LET row == c.input_width + c.pad
        a1  == s.r_addr
        a2  == s.r_addr + 1
        a3  == s.r_addr + row
        a4  == s.r_addr + row + 1
    IN  IF InputStore_reading(s, i)
        THEN IF c.switch_PorD = 0 THEN 0
             ELSE IF a4 % 4 = n THEN (a4 \div 4) % InsHalfDepth
             ELSE IF a3 % 4 = n THEN (a3 \div 4) % InsHalfDepth
             ELSE IF a2 % 4 = n THEN (a2 \div 4) % InsHalfDepth
             ELSE IF a1 % 4 = n THEN (a1 \div 4) % InsHalfDepth
             ELSE 0
        ELSE IF n = 2 THEN (row \div 4) % InsHalfDepth
             ELSE IF n = 3 THEN ((row + 1) \div 4) % InsHalfDepth
             ELSE 0

\* dp.r_addr of bank n: Cat(address within the buffer, r_curr_buf)
InputStore_dp_r_addr(s, i, c, n) ==
    (s.r_curr_buf * InsHalfDepth)
      + (IF c.switch_PorD = 0
         THEN SMR_mem_addr(s.smr[n + 1], InputStore_smr_restart(s, c),
                           InputStore_smr_limit(c, n), InsHalfDepth)
         ELSE InputStore_mem_addrs(s, i, c, n))

\* Mutant of InputStore_dp_w_addr: the write-buffer selector is left out of
\* the memory address.
InputStore_dp_w_addr_OneBuffer(s) == s.w_addr \div 4

\* dp.w_addr: Cat(w_addr[2:], w_curr_buf)
InputStore_dp_w_addr(s) == (s.w_curr_buf * InsHalfDepth) + (s.w_addr \div 4)

InputStore_smr_data(s, n) == SMR_data(s.smr[n + 1], s.dp_r[n + 1])

\* tmp1: the two words under the pointwise read address
InputStore_tmp1(s) ==
    IF s.r_addr % 4 = 0
    THEN <<InputStore_smr_data(s, 0), InputStore_smr_data(s, 1)>>
    ELSE IF s.r_addr % 4 = 2
    THEN <<InputStore_smr_data(s, 2), InputStore_smr_data(s, 3)>>
    ELSE <<>>

\* tmp2: the four memory outputs, rotated by smr_no_d
InputStore_tmp2(s) ==
    [k \in 1..4 |-> s.dp_r[((s.smr_no_d + k - 1) % 4) + 1]]

InputStore_tmp(s, c) ==
    IF c.switch_PorD = 0 THEN InputStore_tmp1(s) ELSE InputStore_tmp2(s)

\* Pointwise r_data: lane n = byte n of tmp + offset, lanes 0..7; the other
\* lanes are not assigned and hold their value.
InputStore_r_data_P(s, c) ==
    LET tmp == InputStore_tmp(s, c)
    IN  [n \in 1..16 |->
            IF n <= 8 THEN Signed12(CatByte(tmp, n - 1) + c.offset)
            ELSE s.r_data[n]]

\* Depthwise r_data_tmp: the input transform of the 4x4 tile held in tmp as
\* four words of 2x2 blocks; b(k) is byte k of tmp.
InputStore_transform(tmp) ==
    LET b(k) == CatByte(tmp, k)
    IN  << b(0) + (-b(8) - b(4)) + b(12),
           b(1) - b(9) + b(4) - b(12),
           b(2) + (b(8) - b(6)) - b(12),
           b(3) + b(9) + b(6) + b(12),
           -b(1) + b(9) + b(4) - b(12),
           b(1) - b(9) - b(5) + b(13),
           -b(3) - b(9) + b(6) + b(12),
           b(3) + b(9) - b(7) - b(13),
           -b(2) + b(8) + b(6) - b(12),
           -b(3) + b(9) - b(6) + b(12),
           b(2) - b(10) - b(6) + b(14),
           b(3) - b(11) + b(6) - b(14),
           b(3) - b(9) - b(6) + b(12),
           -b(3) + b(9) + b(7) - b(13),
           -b(3) + b(11) + b(6) - b(14),
           b(3) - b(11) - b(7) + b(15) >>

\* Mutant of InputStore_r_data_D: the offset is added to lane 3 without the
\* shift by two.
InputStore_r_data_D_OffsetUnshifted(s, c) ==
    [n \in 1..16 |->
        IF n = 4 THEN Signed12(s.r_data_tmp[4] + c.offset)
        ELSE Signed12(s.r_data_tmp[n])]

\* Mutant of InputStore_r_data_D: offset << 2 is added to lane 2.
InputStore_r_data_D_OffsetLaneTwo(s, c) ==
    [n \in 1..16 |->
        IF n = 3 THEN Signed12(s.r_data_tmp[3] + 4 * c.offset)
        ELSE Signed12(s.r_data_tmp[n])]

\* Depthwise r_data: r_data_tmp of the cycle before, with offset << 2 added
\* to lane 3.
InputStore_r_data_D(s, c) ==
    [n \in 1..16 |->
        IF n = 4 THEN Signed12(s.r_data_tmp[4] + 4 * c.offset)
        ELSE Signed12(s.r_data_tmp[n])]

\* Mutant of InputStore_r_full_next: r_finished leaves the buffer full.
InputStore_r_full_next_NoFree(s, i, c, b) ==
    IF InputStore_complete(s, i, c) /\ b = s.w_curr_buf THEN TRUE
    ELSE IF i.restart THEN FALSE
    ELSE s.r_full[b + 1]

\* r_full[b] after the clock edge.  elab clears on restart first, _elab_write
\* sets on the completing write next, _elab_read clears on r_finished last.
InputStore_r_full_next(s, i, c, b) ==
    IF i.r_finished /\ b = s.r_curr_buf THEN FALSE
    ELSE IF InputStore_complete(s, i, c) /\ b = s.w_curr_buf THEN TRUE
    ELSE IF i.restart THEN FALSE
    ELSE s.r_full[b + 1]

InputStore_w_addr_next(s, i, c) ==
    IF i.restart THEN 0
    ELSE IF InputStore_complete(s, i, c) THEN 0
    ELSE IF InputStore_accept(s, i) THEN (s.w_addr + 1) % InsAddrRange
    ELSE s.w_addr

\* Mutant of InputStore_w_curr_buf_next: a completed buffer does not toggle
\* the selector.
InputStore_w_curr_buf_next_NoToggle(s, i, c) ==
    IF i.restart THEN 0 ELSE s.w_curr_buf

InputStore_w_curr_buf_next(s, i, c) ==
    IF i.restart THEN 0
    ELSE IF InputStore_complete(s, i, c) THEN 1 - s.w_curr_buf
    ELSE s.w_curr_buf

\* Mutant of InputStore_r_addr_next: the advance of a read overrides
\* r_finished.
InputStore_r_addr_next_ReadFirst(s, i, c) ==
    IF i.restart THEN 0
    ELSE IF InputStore_reading(s, i)
    THEN IF c.switch_PorD = 0
         THEN (IF s.r_addr = c.input_depth - 2 THEN 0
               ELSE (s.r_addr + 2) % InsAddrRange)
         ELSE (IF ~InputStore_iwc_done(s, i, c)
               THEN (s.r_addr + 1) % InsAddrRange
               ELSE (s.r_addr + c.pad + 2) % InsAddrRange)
    ELSE IF i.r_finished THEN 0
    ELSE IF InputStore_rising(s) /\ c.switch_PorD = 1 THEN 1
    ELSE s.r_addr

\* Mutant of InputStore_r_addr_next: the pointwise address wraps one pair
\* late, from input_depth instead of input_depth - 2.
InputStore_r_addr_next_WrapLate(s, i, c) ==
    IF i.restart \/ i.r_finished THEN 0
    ELSE IF InputStore_reading(s, i)
    THEN IF c.switch_PorD = 0
         THEN (IF s.r_addr = c.input_depth THEN 0
               ELSE (s.r_addr + 2) % InsAddrRange)
         ELSE (IF ~InputStore_iwc_done(s, i, c)
               THEN (s.r_addr + 1) % InsAddrRange
               ELSE (s.r_addr + c.pad + 2) % InsAddrRange)
    ELSE IF InputStore_rising(s) /\ c.switch_PorD = 1 THEN 1
    ELSE s.r_addr

\* The read address after the clock edge: restart and r_finished override
\* the advance of a read, which overrides the preset of the depthwise start.
InputStore_r_addr_next(s, i, c) ==
    IF i.restart \/ i.r_finished THEN 0
    ELSE IF InputStore_reading(s, i)
    THEN IF c.switch_PorD = 0
         THEN (IF s.r_addr = c.input_depth - 2 THEN 0
               ELSE (s.r_addr + 2) % InsAddrRange)
         ELSE (IF ~InputStore_iwc_done(s, i, c)
               THEN (s.r_addr + 1) % InsAddrRange
               ELSE (s.r_addr + c.pad + 2) % InsAddrRange)
    ELSE IF InputStore_rising(s) /\ c.switch_PorD = 1 THEN 1
    ELSE s.r_addr

\* Mutant of InputStore_r_ready_next: the edge of full is taken only while
\* the other buffer is empty.
InputStore_r_ready_next_MissesEdge(s, i) ==
    IF i.restart \/ i.r_finished THEN FALSE
    ELSE IF InputStore_rising(s) /\ ~s.r_full[(1 - s.r_curr_buf) + 1] THEN TRUE
    ELSE s.r_ready

InputStore_r_ready_next(s, i) ==
    IF i.restart \/ i.r_finished THEN FALSE
    ELSE IF InputStore_rising(s) THEN TRUE
    ELSE s.r_ready

\* The memory of bank n after the clock edge.
InputStore_mem_next(s, i, n) ==
    IF InputStore_accept(s, i) /\ n = s.w_addr % 4
    THEN [s.mem[n + 1] EXCEPT ![InputStore_dp_w_addr(s)] = i.w_data]
    ELSE s.mem[n + 1]

\* Registers and memories after the clock edge.
InputStore_next(s, i, c) ==
    [ r_full     |-> [b \in 1..2 |-> InputStore_r_full_next(s, i, c, b - 1)],
      w_curr_buf |-> InputStore_w_curr_buf_next(s, i, c),
      w_addr     |-> InputStore_w_addr_next(s, i, c),
      r_curr_buf |-> IF i.restart THEN 0
                     ELSE IF i.r_finished THEN 1 - s.r_curr_buf
                     ELSE s.r_curr_buf,
      r_addr     |-> InputStore_r_addr_next(s, i, c),
      last_full  |-> IF i.restart \/ i.r_finished THEN FALSE
                     ELSE InputStore_full(s),
      r_ready    |-> InputStore_r_ready_next(s, i),
      iwc        |-> UpCounter_next(s.iwc, InputStore_iwc_en(s, i, c),
                         i.restart \/ i.r_finished, InputStore_iwc_max(c),
                         InputWidthCountWidth),
      smr        |-> [k \in 1..4 |->
                         SMR_next(s.smr[k], InputStore_smr_restart(s, c),
                                  InputStore_smr_next(s, i, c, k - 1),
                                  InputStore_smr_limit(c, k - 1),
                                  InsHalfDepth, s.dp_r[k])],
      dp_r       |-> [k \in 1..4 |->
                         s.mem[k][InputStore_dp_r_addr(s, i, c, k - 1)]],
      mem        |-> [k \in 1..4 |-> InputStore_mem_next(s, i, k - 1)],
      smr_no_d   |-> IF InputStore_reading(s, i) THEN s.r_addr % 4 ELSE 0,
      r_data_tmp |-> IF c.switch_PorD = 0 THEN s.r_data_tmp
                     ELSE InputStore_transform(InputStore_tmp(s, c)),
      r_data     |-> IF c.switch_PorD = 0 THEN InputStore_r_data_P(s, c)
                     ELSE InputStore_r_data_D(s, c) ]

InputStore_reset ==
    [ r_full     |-> <<FALSE, FALSE>>,
      w_curr_buf |-> 0,
      w_addr     |-> 0,
      r_curr_buf |-> 0,
      r_addr     |-> 0,
      last_full  |-> FALSE,
      r_ready    |-> FALSE,
      iwc        |-> 0,
      smr        |-> [k \in 1..4 |-> SMR_reset],
      dp_r       |-> [k \in 1..4 |-> ZeroWord],
      mem        |-> [k \in 1..4 |->
                         [a \in 0..(2 * InsHalfDepth - 1) |-> ZeroWord]],
      smr_no_d   |-> 0,
      r_data_tmp |-> [n \in 1..16 |-> 0],
      r_data     |-> [n \in 1..16 |-> 0] ]

(***************************************************************************)
(* StoreSetter (store.py), with num_memories = 4 as in the filter store    *)
(***************************************************************************)
\* Words per filter memory: config.FILTER_DATA_MEM_DEPTH is not part of the
\* sources; the model scales the memories down to two words each.
FsBankDepth == 2
\* Range of count: range(depth * num_memories + 1), a power of two signal
FsCountRange == 2 * 4 * FsBankDepth
\* Range of FilterValueFetcher.limit and r_addr: range(max_depth * 4)
FsLimitRange == 4 * FsBankDepth

\* Mutant of StoreSetter_w_en: restart does not hold the write enable down.
StoreSetter_w_en_IgnoresRestart(count, start, restart, n) ==
    start /\ n = count % 4

\* w_en of bank n
StoreSetter_w_en(count, start, restart, n) ==
    ~restart /\ start /\ n = count % 4

\* Mutant of StoreSetter_w_addr: the address is taken from the low bits.
StoreSetter_w_addr_LowBits(count) == count % FsBankDepth

\* w_addr: count[num_memories_bits:]
StoreSetter_w_addr(count) == (count \div 4) % FsBankDepth

\* updated: any(w_en) | restart
StoreSetter_updated(start, restart) == start \/ restart

\* Mutant of StoreSetter_next: restart does not clear the count.
StoreSetter_next_NoRestart(count, start, restart, range) ==
    IF start THEN (count + 1) % range ELSE count

\* range is the number of values of the count signal
StoreSetter_next(count, start, restart, range) ==
    IF restart THEN 0
    ELSE IF start THEN (count + 1) % range
    ELSE count

(***************************************************************************)
(* The filter store: StoreSetter, four memories and FilterValueFetcher     *)
(* (store.py), wired as in mnv2_cfu.py.                                    *)
(*   s: registers and memories, i: inputs of the cycle, c: configuration  *)
(***************************************************************************)
\* fvf.limit.eq(fv_count): the count truncated to the width of limit
FilterStore_limit(s) == s.count % FsLimitRange

FilterStore_smr_limit(s, n) == (FilterStore_limit(s) + 3 - n) \div 4

\* Mutant of FilterValueFetcher_smr_next: the depthwise window has two
\* readers, as the pointwise one.
FilterValueFetcher_smr_next_TwoReaders(s, i, c, n) ==
    /\ ~i.restart
    /\ i.next
    /\ \/ n = s.r_addr % 4
       \/ n = (s.r_addr + 1) % 4

\* smr_nexts of the fetcher; restart takes precedence over next.
FilterValueFetcher_smr_next(s, i, c, n) ==
    /\ ~i.restart
    /\ i.next
    /\ IF c.switch_PorD = 0
       THEN \/ n = s.r_addr % 4
            \/ n = Min((s.r_addr % 4) + 1, 3)
       ELSE \/ n = s.r_addr % 4
            \/ n = (s.r_addr + 1) % 4
            \/ n = (s.r_addr + 2) % 4

\* Mutant of FilterValueFetcher_r_addr_next: the read index never wraps.
FilterValueFetcher_r_addr_next_NoWrap(s, i, c) ==
    IF i.restart THEN 0
    ELSE IF i.next
    THEN (s.r_addr + (IF c.switch_PorD = 0 THEN 2 ELSE 3)) % FsLimitRange
    ELSE s.r_addr

FilterValueFetcher_r_addr_next(s, i, c) ==
    IF i.restart THEN 0
    ELSE IF i.next
    THEN IF c.switch_PorD = 0
         THEN (IF s.r_addr = FilterStore_limit(s) - 2 THEN 0
               ELSE (s.r_addr + 2) % FsLimitRange)
         ELSE (IF s.r_addr = FilterStore_limit(s) - 3 THEN 0
               ELSE (s.r_addr + 3) % FsLimitRange)
    ELSE s.r_addr

FilterValueFetcher_smr_data(s, n) == SMR_data(s.smr[n + 1], s.dp_r[n + 1])

\* tmp: the three words under the read index
FilterValueFetcher_tmp(s) ==
    << FilterValueFetcher_smr_data(s, s.r_addr % 4),
       FilterValueFetcher_smr_data(s, (s.r_addr + 1) % 4),
       FilterValueFetcher_smr_data(s, (s.r_addr + 2) % 4) >>

\* Pointwise data: lane n = byte n of tmp, lanes 0..7; the other lanes are
\* not assigned and hold their value.
FilterValueFetcher_data_P(s) ==
    LET tmp == FilterValueFetcher_tmp(s)
    IN  [n \in 1..16 |->
            IF n <= 8 THEN Signed12(CatByte(tmp, n - 1)) ELSE s.data[n]]

\* Depthwise data_tmp: sums of the taps b(0..8) of the 3x3 filter in tmp.
FilterValueFetcher_data_tmp(tmp) ==
    LET b(k) == CatByte(tmp, k)
    IN  << Signed12(b(0) * 4),
           b(0) + b(1) + b(2),
           b(0) + b(3) + b(6),
           b(0) + b(3) + b(6) + b(1) + b(4),
           b(0) - b(1) + b(2),
           Signed12(b(2) * 4),
           b(0) + b(3) + b(6) - b(1) - b(4),
           b(2) + b(5) + b(8),
           b(0) - b(3) + b(6),
           b(0) - b(3) + b(6) + b(1) - b(4),
           Signed12(b(6) * 4),
           b(6) + b(7) + b(8),
           b(0) - b(3) + b(6) - b(1) + b(4),
           b(2) - b(5) + b(8),
           b(6) - b(7) + b(8),
           Signed12(b(8) * 4) >>

\* Depthwise late_tmp: the taps 7, 2, 5 and 8
FilterValueFetcher_late_tmp(tmp) ==
    << CatByte(tmp, 7), CatByte(tmp, 2), CatByte(tmp, 5), CatByte(tmp, 8) >>

\* Depthwise data, from data_tmp (d) and late_tmp (l) of the cycle before
FilterValueFetcher_data_D(d, l) ==
    << Signed12(d[1]),
       Signed12(d[2] * 2),
       Signed12(d[3] * 2),
       Signed12(d[4] + l[1] + l[2] + l[3] + l[4]),
       Signed12(d[5] * 2),
       Signed12(d[6]),
       Signed12(d[7] - l[1] + l[2] + l[3] + l[4]),
       Signed12(d[8] * 2),
       Signed12(d[9] * 2),
       Signed12(d[10] + l[1] + l[2] - l[3] + l[4]),
       Signed12(d[11]),
       Signed12(d[12] * 2),
       Signed12(d[13] - l[1] + l[2] - l[3] + l[4]),
       Signed12(d[14] * 2),
       Signed12(d[15] * 2),
       Signed12(d[16]) >>

FilterStore_mem_next(s, i, n) ==
    IF StoreSetter_w_en(s.count, i.start, i.restart, n)
    THEN [s.mem[n + 1] EXCEPT ![StoreSetter_w_addr(s.count)] = i.in0]
    ELSE s.mem[n + 1]

\* Registers and memories after the clock edge.
FilterStore_next(s, i, c) ==
    [ count       |-> StoreSetter_next(s.count, i.start, i.restart,
                                      FsCountRange),
      mem         |-> [k \in 1..4 |-> FilterStore_mem_next(s, i, k - 1)],
      was_updated |-> StoreSetter_updated(i.start, i.restart),
      smr         |-> [k \in 1..4 |->
                          SMR_next(s.smr[k], s.was_updated,
                                   FilterValueFetcher_smr_next(s, i, c, k - 1),
                                   FilterStore_smr_limit(s, k - 1),
                                   FsBankDepth, s.dp_r[k])],
      dp_r        |-> [k \in 1..4 |->
                          s.mem[k][SMR_mem_addr(s.smr[k], s.was_updated,
                                       FilterStore_smr_limit(s, k - 1),
                                       FsBankDepth)]],
      r_addr      |-> FilterValueFetcher_r_addr_next(s, i, c),
      data_tmp    |-> IF c.switch_PorD = 0 THEN s.data_tmp
                      ELSE FilterValueFetcher_data_tmp(
                               FilterValueFetcher_tmp(s)),
      late_tmp    |-> IF c.switch_PorD = 0 THEN s.late_tmp
                      ELSE FilterValueFetcher_late_tmp(
                               FilterValueFetcher_tmp(s)),
      data        |-> IF c.switch_PorD = 0 THEN FilterValueFetcher_data_P(s)
                      ELSE FilterValueFetcher_data_D(s.data_tmp, s.late_tmp) ]

FilterStore_reset ==
    [ count       |-> 0,
      mem         |-> [k \in 1..4 |-> [a \in 0..(FsBankDepth - 1) |-> ZeroWord]],
      was_updated |-> FALSE,
      smr         |-> [k \in 1..4 |-> SMR_reset],
      dp_r        |-> [k \in 1..4 |-> ZeroWord],
      r_addr      |-> 0,
      data_tmp    |-> [n \in 1..16 |-> 0],
      late_tmp    |-> [n \in 1..4 |-> 0],
      data        |-> [n \in 1..16 |-> 0] ]

(***************************************************************************)
(* Mul8Pipeline and AccOrTrans (mul.py)                                    *)
(*   s: registers, i: inputs of the cycle, c: configuration               *)
(* Lane n of the source is index n + 1 of the tuples.                     *)
(***************************************************************************)
Lanes == 1..16

\* The value a signed signal of the given width holds after it is assigned x
SignedW(x, width) == ((x + Pow2(width - 1)) % Pow2(width)) - Pow2(width - 1)

\* The value a signed(32) signal holds after it is assigned x.  The sums of
\* the model stay far inside the signed(32) range (at most MaxMacAdds + 1
\* batches of eight 24-bit products), so none wraps round.
Signed32(x) == x

\* Mutant of Mul8Pipeline_products: the products are 17 bits wide, as for
\* 8-bit by 9-bit operands.
Mul8Pipeline_products_Narrow(s) ==
    [n \in Lanes |-> SignedW(s.i_tmp[n] * s.f_tmp[n], 17)]

\* products: i_tmp * f_tmp, signed(24)
Mul8Pipeline_products(s) ==
    [n \in Lanes |-> SignedW(s.i_tmp[n] * s.f_tmp[n], 24)]

RECURSIVE SumLanes(_, _)
\* tree_sum of the lanes 1..n of p
SumLanes(p, n) == IF n = 0 THEN 0 ELSE SumLanes(p, n - 1) + p[n]

\* Mutant of AccOrTrans_add_sum: all sixteen lanes are added.
AccOrTrans_add_sum_AllLanes(p) == SignedW(SumLanes(p, 16), 28)

\* add_sum, signed(28): tree_sum of in_values[0..7]
AccOrTrans_add_sum(p) == SignedW(SumLanes(p, 8), 28)

\* Y_tmp of the depthwise transform; p[n + 1] is in_values[n]
AccOrTrans_Y_tmp(p) ==
    << p[1] + p[3] + p[9] + p[2] + p[4] + p[10] + p[5] + p[7],
       p[2] + p[4] + p[10] - p[5] - p[7] - p[13] - p[6] - p[8],
       p[3] - p[9] - p[11] + p[4] - p[10] - p[12] + p[7] - p[13],
       p[4] - p[10] - p[12] - p[7] + p[13] + p[15] - p[8] + p[14] >>

\* late_in_values: in_values[12..15]
AccOrTrans_late(p) == << p[13], p[14], p[15], p[16] >>

\* Mutant of AccOrTrans_Y: the late term is added in every lane.
AccOrTrans_Y_AllAdded(y, l) ==
    << y[1] + l[1], y[2] + l[2], y[3] + l[3], y[4] + l[4] >>

\* Y, from Y_tmp (y) and late_in_values (l) of the cycle before
AccOrTrans_Y(y, l) ==
    << Signed32(y[1] + l[1]), Signed32(y[2] - l[2]),
       Signed32(y[3] - l[3]), Signed32(y[4] + l[4]) >>

\* result[k] in a cycle.  Pointwise: result[0] is the accumulator, with
\* add_sum added while add_en is high; depthwise: Y >> 2, an arithmetic
\* shift.
AccOrTrans_result(s, i, c) ==
    IF c.switch_PorD = 0
    THEN << IF i.add_en THEN Signed32(s.accumulator + s.add_sum)
            ELSE s.accumulator, 0, 0, 0 >>
    ELSE [k \in 1..4 |-> s.Y[k] \div 4]

\* Mutant of AccOrTrans_accumulator_next: add_en is dominant over clear.
AccOrTrans_accumulator_next_AddFirst(s, i) ==
    IF i.add_en THEN Signed32(s.accumulator + s.add_sum)
    ELSE IF i.clear THEN 0
    ELSE s.accumulator

\* clear is the later assignment: it zeroes the accumulator even if add_en
\* is high.
AccOrTrans_accumulator_next(s, i) ==
    IF i.clear THEN 0
    ELSE IF i.add_en THEN Signed32(s.accumulator + s.add_sum)
    ELSE s.accumulator

\* Registers after the clock edge; i.i_data and i.f_data are the sixteen
\* 12-bit lanes of the 192-bit inputs.
Mac_next(s, i, c) ==
    LET p == Mul8Pipeline_products(s)
    IN  [ i_tmp       |-> [n \in Lanes |-> Signed12(i.i_data[n])],
          f_tmp       |-> [n \in Lanes |-> Signed12(i.f_data[n])],
          add_sum     |-> IF c.switch_PorD = 0 THEN AccOrTrans_add_sum(p)
                          ELSE s.add_sum,
          accumulator |-> IF c.switch_PorD = 0
                          THEN AccOrTrans_accumulator_next(s, i)
                          ELSE s.accumulator,
          Y_tmp       |-> IF c.switch_PorD = 0 THEN s.Y_tmp
                          ELSE AccOrTrans_Y_tmp(p),
          late        |-> IF c.switch_PorD = 0 THEN s.late
                          ELSE AccOrTrans_late(p),
          Y           |-> IF c.switch_PorD = 0 THEN s.Y
                          ELSE AccOrTrans_Y(s.Y_tmp, s.late) ]

Mac_reset ==
    [ i_tmp |-> [n \in Lanes |-> 0], f_tmp |-> [n \in Lanes |-> 0],
      add_sum |-> 0, accumulator |-> 0,
      Y_tmp |-> <<0, 0, 0, 0>>, late |-> <<0, 0, 0, 0>>,
      Y |-> <<0, 0, 0, 0>> ]

(***************************************************************************)
(* CircularIncrementer (store.py) and the output channel parameter stores *)
(* of mnv2_cfu.py (a StoreSetter with one memory and an incrementer)      *)
(***************************************************************************)
\* Words per parameter memory: config.OUTPUT_CHANNEL_PARAM_DEPTH is not part
\* of the sources; the model scales the memory down to four words.
PsDepth == 4
\* Range of the count of a one-memory StoreSetter: range(depth + 1)
PsCountRange == 2 * PsDepth

\* limit is unsigned and as wide as r_addr, and the library gives limit - 1
\* one bit more.  Releases of the library differ in the sign of a difference
\* of two unsigned values: with a signed difference limit - 1 is -1 for
\* limit 0, with an unsigned one it wraps to the largest value of the wider
\* signal.  A build has one of the two.
SubShapes == {"signed", "unsigned"}

CircularIncrementer_limit_minus_1(limit, sub) ==
    IF sub = "signed" THEN limit - 1 ELSE (limit - 1) % (2 * PsDepth)

\* r_addr output in a cycle
CircularIncrementer_r_addr(last_addr, restart, next, limit, sub) ==
    IF restart THEN 0
    ELSE IF next
    THEN (IF last_addr >= CircularIncrementer_limit_minus_1(limit, sub)
          THEN 0 ELSE (last_addr + 1) % PsDepth)
    ELSE last_addr

\* inc.limit.eq(psset.count): the count truncated to the width of limit
ParamStore_limit(s) == s.count % PsDepth

ParamStore_r_addr(s, restart, next) ==
    CircularIncrementer_r_addr(s.last_addr, restart, next,
                               ParamStore_limit(s), s.sub)

\* sub is fixed by the build and is no register
ParamStore_next(s, start, restart, next) ==
    [ count     |-> StoreSetter_next(s.count, start, restart, PsCountRange),
      last_addr |-> ParamStore_r_addr(s, restart, next),
      sub       |-> s.sub ]

ParamStore_reset == [ count |-> 0, last_addr |-> 0, sub |-> "signed" ]

(***************************************************************************)
(* InputStoreSetter (store.py)                                            *)
(***************************************************************************)
InputStoreSetter_w_en(waiting, start, w_ready) ==
    \/ start /\ w_ready
    \/ ~start /\ waiting /\ ~w_ready

InputStoreSetter_done(waiting, start, w_ready) ==
    InputStoreSetter_w_en(waiting, start, w_ready)

InputStoreSetter_next(waiting, start, w_ready) ==
    IF start /\ w_ready THEN waiting
    ELSE IF start /\ ~w_ready THEN TRUE
    ELSE IF waiting /\ ~w_ready THEN TRUE
    ELSE waiting

(***************************************************************************)
(* ByteToWordShifter (mul.py).  The 32-bit register is a word of four     *)
(* bytes, the low byte first.                                              *)
(***************************************************************************)
\* Mutant of ByteToWordShifter_calc: the byte enters at the low end.
ByteToWordShifter_calc_LowEnd(register, in_value) ==
    << in_value, register[1], register[2], register[3] >>

\* calc: Cat(register[8:], in_value)
ByteToWordShifter_calc(register, in_value) ==
    << register[2], register[3], register[4], in_value >>

\* result in a cycle
ByteToWordShifter_result(register, i) ==
    IF i.shift_en THEN ByteToWordShifter_calc(register, i.in_value)
    ELSE register

\* register after the clock edge
ByteToWordShifter_next(register, i) ==
    IF i.shift_en THEN ByteToWordShifter_calc(register, i.in_value)
    ELSE register

ByteToWordShifter_reset == <<0, 0, 0, 0>>

(***************************************************************************)
(* The output queue (mnv2_cfu.py): a SyncFIFOBuffered of amaranth.lib.fifo, *)
(* which is a SyncFIFO of depth - 1 words followed by an output register. *)
(*   q: registers of the queue                                            *)
(***************************************************************************)
\* config.OUTPUT_QUEUE_DEPTH is not part of the sources; the model scales the
\* queue down to twelve words.
OqDepth == 12
\* Words held back by oq_has_space
OqReserve == 8

Oq_reset == [ level |-> 0, r_rdy |-> FALSE ]

\* w_rdy: the inner queue is not full
Oq_w_rdy(q) == q.level # OqDepth - 1

\* w_level: the words of the inner queue and of the output register
Oq_w_level(q) == q.level + (IF q.r_rdy THEN 1 ELSE 0)

\* oq_has_space = fifo.w_level < (config.OUTPUT_QUEUE_DEPTH - 8)
Oq_has_space(q) == Oq_w_level(q) < OqDepth - OqReserve

\* The inner queue hands a word to the output register
Oq_refill(q, r_en) == q.level # 0 /\ (~q.r_rdy \/ r_en)

\* Registers after the clock edge; a write into a full queue is dropped.
Oq_next(q, w_en, r_en) ==
    [ level |-> q.level + (IF w_en /\ Oq_w_rdy(q) THEN 1 ELSE 0)
                        - (IF Oq_refill(q, r_en) THEN 1 ELSE 0),
      r_rdy |-> IF Oq_refill(q, r_en) THEN TRUE
                ELSE IF r_en THEN FALSE
                ELSE q.r_rdy ]

(***************************************************************************)
(* The CFU (mnv2_cfu.py): the register file, the stores and the Sequencer *)
(* wired together.  An instruction writes one register.  A RegisterSetter *)
(* latches the value and raises its set output for the following cycle;   *)
(* the StoreSetters and the InputStoreSetter act in the cycle of the      *)
(* instruction.                                                            *)
(*   u: registers of the register file, o: the instruction and the queue  *)
(*   state of the cycle                                                    *)
(***************************************************************************)
RegInputDepthWords == 10
RegRestart == 20
RegOutputParam == 21
RegFilterValue == 24
RegInputValue == 25
RegStartRun == 33
RegMarkRead == 112

\* Mutant of Cfu_pad: a width of 3 modulo 4 is padded by 1.
Cfu_pad_OddByOne(input_width) ==
    IF input_width % 4 = 0 THEN 2
    ELSE IF input_width % 4 = 1 THEN 1
    ELSE IF input_width % 4 = 2 THEN 0
    ELSE 1

\* pad as the CFU derives it from input_width
Cfu_pad(input_width) ==
    IF input_width % 4 = 0 THEN 2
    ELSE IF input_width % 4 = 1 THEN 1
    ELSE IF input_width % 4 = 2 THEN 0
    ELSE 3

\* Registers written through a RegisterSetter
CfuSetters == {RegInputDepthWords, RegRestart, RegStartRun, RegMarkRead}

Cfu_next(u, o, w_ready, acc_done) ==
    [ set               |-> IF o.op \in CfuSetters THEN o.op ELSE 0,
      input_depth_words |-> IF o.op = RegInputDepthWords THEN o.in0
                            ELSE u.input_depth_words,
      waiting           |-> InputStoreSetter_next(u.waiting,
                                o.op = RegInputValue, w_ready),
      busy              |-> /\ u.busy \/ o.op = RegInputValue
                            /\ ~InputStoreSetter_done(u.waiting,
                                   o.op = RegInputValue, w_ready),
      ps                |-> ParamStore_next(u.ps, o.op = RegOutputParam,
                                u.set = RegRestart, acc_done) ]

Cfu_reset ==
    [ set |-> 0, input_depth_words |-> 0, waiting |-> FALSE, busy |-> FALSE,
      ps |-> ParamStore_reset ]

\* The inputs and configuration of the Sequencer in a cycle
Cfu_seq_in(u, o, s_ins) ==
    [ start_run      |-> u.set = RegStartRun,
      restart        |-> u.set = RegRestart,
      in_store_ready |-> s_ins.r_ready,
      fifo_has_space |-> o.space ]

Cfu_seq_cfg(u, c, s_fs) ==
    [ switch_PorD        |-> c.switch_PorD,
      num_tile           |-> c.num_tile,
      filter_value_words |-> s_fs.count,
      input_depth_words  |-> u.input_depth_words,
      pp_cycles          |-> c.pp_cycles ]

\* The inputs and configuration of the filter store in a cycle
Cfu_fs_in(u, o, filter_next) ==
    [ restart |-> u.set = RegRestart,
      start   |-> o.op = RegFilterValue,
      next    |-> filter_next,
      in0     |-> ZeroWord ]

\* The inputs and configuration of the InputStore in a cycle: its restart is
\* the set output of register 10.
Cfu_ins_in(u, o, s_ins, gate_now, finished) ==
    [ restart    |-> u.set = RegInputDepthWords,
      w_en       |-> InputStoreSetter_w_en(u.waiting, o.op = RegInputValue,
                         InputStore_w_ready(s_ins)),
      r_next     |-> gate_now,
      r_finished |-> u.set = RegMarkRead \/ finished,
      w_data     |-> ZeroWord ]

Cfu_ins_cfg(u, c) ==
    [ switch_PorD |-> c.switch_PorD,
      input_depth |-> u.input_depth_words % InsAddrRange,
      offset      |-> c.offset,
      input_width |-> c.input_width,
      pad         |-> Cfu_pad(c.input_width) ]

(***************************************************************************)
(* The Sequencer on its own: the environment drives start_run, restart,    *)
(* in_store_ready and fifo_has_space freely; the configuration registers   *)
(* are set before the first cycle and then held.                           *)
(***************************************************************************)
SeqInputs ==
    [ start_run : BOOLEAN, restart : BOOLEAN,
      in_store_ready : BOOLEAN, fifo_has_space : BOOLEAN ]

\* PostProcessor.PIPELINE_CYCLES is a constant of post_process.py, which is
\* not part of the sources; the Delayer distinguishes the values 1 to 5, and
\* the model takes the shortest and the longest delay.
PostProcessorCycles == {1, 5}

\* Pointwise configurations leave num_tile at its reset value 0 (register 36
\* is never written, as in test_2dconv) and set the two word counts;
\* depthwise configurations set num_tile and do not read the word counts,
\* which are held at 2.
SeqConfigs ==
    { c \in [ switch_PorD : {0, 1},
              num_tile : 0..MaxCount,
              filter_value_words : {2 * k : k \in 1..MaxCount},
              input_depth_words : {2 * k : k \in 1..MaxCount},
              pp_cycles : PostProcessorCycles ] :
        /\ c.switch_PorD = 0 => c.num_tile = 0
        /\ c.switch_PorD = 1 => /\ c.num_tile >= 1
                                /\ c.filter_value_words = 2
                                /\ c.input_depth_words = 2 }

\* pulses:  start_run and restart pulses issued so far
\* gates:   gate cycles since the counters were last at zero
\* aborted: a restart hit a run in progress and start_run has not been
\*          asserted since (the current cycle not included)
\* muls:    mul_done pulses since the last restart, modulo the batch length
Hist_reset == [ pulses |-> 0, gates |-> 0, aborted |-> FALSE, muls |-> 0 ]

\* The mul_done pulses of one batch: half the input depth in pointwise mode,
\* the number of tiles in depthwise mode.
BatchLength(c) ==
    IF c.switch_PorD = 0 THEN c.input_depth_words \div 2 ELSE c.num_tile

Hist_next(h, s, i, c) ==
    LET gate == Sequencer_gate(s, i)
        aof  == Sequencer_all_output_finished(s, i, c)
    IN  [ pulses  |-> h.pulses + (IF i.start_run THEN 1 ELSE 0)
                               + (IF i.restart THEN 1 ELSE 0),
          gates   |-> IF i.restart \/ aof THEN 0
                      ELSE IF gate THEN h.gates + 1 ELSE h.gates,
          aborted |-> IF i.start_run THEN FALSE
                      ELSE IF i.restart /\ s.running /\ ~aof THEN TRUE
                      ELSE h.aborted,
          muls    |-> IF i.restart \/ BatchLength(c) = 0 THEN 0
                      ELSE IF Sequencer_mul_done(s, c)
                      THEN (h.muls + 1) % BatchLength(c)
                      ELSE h.muls ]

\* The environment may drive the inputs i after the pulses counted in h.
SeqEnvAllows(h, i) ==
    h.pulses + (IF i.start_run THEN 1 ELSE 0) + (IF i.restart THEN 1 ELSE 0)
        <= MaxPulses

(***************************************************************************)
(* The InputStore on its own: the environment drives restart, w_en, r_next *)
(* and r_finished freely (r_finished is also wired to register 112, which *)
(* software may write at any time); the configuration registers are set   *)
(* before the first cycle and then held.  The store is checked under two  *)
(* environments: one that restarts the store and writes words that are    *)
(* all zero, for the properties of the flags, selectors and addresses, and *)
(* one that writes a stream of distinct words into a store that is not    *)
(* restarted after its configuration, for the properties of the data.     *)
(***************************************************************************)
InsOffsets == {0, 128}
InsWidths == {2, 3}

\* input_width is read in depthwise mode only; pointwise configurations
\* hold it at 2.
InsAllConfigs ==
    { c \in [ switch_PorD : {0, 1},
              input_depth : 1..MaxInputDepth,
              offset : InsOffsets,
              input_width : InsWidths,
              pad : 0..3 ] :
        /\ c.pad = Cfu_pad(c.input_width)
        /\ c.switch_PorD = 0 => c.input_width = 2 }

\* Configurations of the environment that writes zeros: every depth in
\* pointwise mode, the largest depth in depthwise mode.
InsConfigs ==
    { c \in InsAllConfigs :
        /\ c.offset = 0
        /\ c.switch_PorD = 1 => c.input_depth = MaxInputDepth }

\* Configurations of the environment that writes distinct words.
InsDataConfigs ==
    { c \in InsAllConfigs :
        /\ c.switch_PorD = 0 => \/ c.offset = 128
                                \/ c.input_depth = 2
        /\ c.switch_PorD = 1 => /\ c.input_depth = MaxInputDepth
                                /\ c.input_width = 2
                                /\ c.offset = 128 }

\* The g-th filling of a buffer writes the words InsWord(g, 0), InsWord(g, 1),
\* ...: every byte of the stream is different from the bytes around it.
InsWordByte(g, a, j) == ((4 * (g * InsAddrRange + a) + j) * 67 + 29) % 256

InsWord(g, a) == [j \in 1..4 |-> InsWordByte(g, a, j - 1)]

\* tagged:  the environment writes the stream of distinct words
\* budget:  restart pulses the environment may still issue
\* gen:     number of the filling in progress, modulo InsGenerations
\* cur:     the words stored so far by the filling in progress
\* done:    for each buffer, the words of its last completed filling
\* prev:    r_ready, r_curr_buf and r_addr of the cycle before
\* wrapped: the read address has wrapped round since r_ready rose
InsHist_init(tagged, budget) ==
    [ tagged |-> tagged, budget |-> budget, gen |-> 0, cur |-> <<>>,
      done |-> << <<>>, <<>> >>,
      prev |-> [ready |-> FALSE, buf |-> 0, addr |-> 0], wrapped |-> FALSE ]

InsHist_next(h, s, i, c) ==
    LET ends == i.restart \/ InputStore_complete(s, i, c)
    IN  [ tagged   |-> h.tagged,
          budget   |-> h.budget - (IF i.restart THEN 1 ELSE 0),
          gen      |-> IF h.tagged /\ ends
                       THEN (h.gen + 1) % InsGenerations ELSE h.gen,
          cur      |-> IF ends \/ ~h.tagged THEN <<>>
                       ELSE IF InputStore_accept(s, i)
                       THEN Append(h.cur, i.w_data)
                       ELSE h.cur,
          done     |-> IF h.tagged /\ InputStore_complete(s, i, c)
                       THEN [h.done EXCEPT ![s.w_curr_buf + 1] =
                                               Append(h.cur, i.w_data)]
                       ELSE h.done,
          prev     |-> [ready |-> s.r_ready, buf |-> s.r_curr_buf,
                        addr |-> s.r_addr],
          wrapped  |-> IF i.restart \/ i.r_finished \/ ~s.r_ready THEN FALSE
                       ELSE IF InputStore_reading(s, i)
                               /\ s.r_addr = c.input_depth - 2 THEN TRUE
                       ELSE h.wrapped ]

\* The inputs the environment may drive after the history h into the
\* store state s.
InsInputs(h, s) ==
    { i \in [ restart : BOOLEAN, w_en : BOOLEAN, r_next : BOOLEAN,
              r_finished : BOOLEAN,
              w_data : {IF h.tagged THEN InsWord(h.gen, s.w_addr)
                        ELSE ZeroWord} ] :
        i.restart => h.budget > 0 }

(***************************************************************************)
(* The filter store on its own.  Software restarts the store (register     *)
(* 20), writes filter words (register 24) and then lets the accelerator    *)
(* read: no word is written between the first read and the next restart.   *)
(* The readers restart in the cycle after an update and show their first   *)
(* word in the cycle after that, so the first next comes two cycles or     *)
(* more after the last write.                                              *)
(***************************************************************************)
\* The k-th word written after the g-th restart: every byte of the stream
\* is different from the others.
FsWordByte(g, k, j) == ((4 * (g * (MaxFilterWords + 1) + k) + j) * 67 + 29) % 256

FsWord(g, k) == [j \in 1..4 |-> FsWordByte(g, k, j - 1)]

\* on:       the filter store is clocked
\* restarts: restart pulses issued so far
\* written:  the words written since the last restart
\* pos:      index in written of the first word the fetcher is to show
\* read:     a next has been issued since the last restart
\* age:      cycles since the last update, up to 2
\* p1, p2:   whether the readers were settled, and pos, one and two cycles ago
FsHist_init(on) ==
    [ on |-> on, restarts |-> 0, written |-> <<>>, pos |-> 0, read |-> FALSE,
      age |-> 2,
      p1 |-> [valid |-> FALSE, pos |-> 0],
      p2 |-> [valid |-> FALSE, pos |-> 0] ]

\* Words the fetcher consumes per next
FsStep(c) == IF c.switch_PorD = 0 THEN 2 ELSE 3

FsHist_next(h, i, c) ==
    [ on       |-> h.on,
      restarts |-> h.restarts + (IF i.restart THEN 1 ELSE 0),
      written  |-> IF i.restart THEN <<>>
                   ELSE IF i.start THEN Append(h.written, i.in0)
                   ELSE h.written,
      pos      |-> IF i.restart THEN 0
                   ELSE IF i.next THEN (h.pos + FsStep(c)) % Len(h.written)
                   ELSE h.pos,
      read     |-> ~i.restart /\ (h.read \/ i.next),
      age      |-> IF StoreSetter_updated(i.start, i.restart) THEN 0
                   ELSE Min(h.age + 1, 2),
      p1       |-> [valid |-> h.age = 2 /\ Len(h.written) > 0
                                 /\ ~StoreSetter_updated(i.start, i.restart),
                    pos |-> h.pos],
      p2       |-> [valid |-> h.p1.valid
                                 /\ ~StoreSetter_updated(i.start, i.restart),
                    pos |-> h.p1.pos] ]

FsInputs(h) ==
    { i \in [ restart : BOOLEAN, start : BOOLEAN, next : BOOLEAN,
              in0 : {FsWord(h.restarts, Len(h.written))} ] :
        /\ i.restart => h.restarts < MaxFsRestarts
        /\ i.start => ~i.restart /\ ~h.read /\ Len(h.written) < MaxFilterWords
        /\ i.next => /\ ~i.restart /\ ~i.start
                     /\ h.age = 2 /\ Len(h.written) > 0 }

FsConfigs == [ switch_PorD : {0, 1} ]

FsParked ==
    /\ fs = FilterStore_reset
    /\ fs_cfg = [switch_PorD |-> 0]
    /\ fs_hist = FsHist_init(FALSE)
    /\ fs_in = [restart |-> FALSE, start |-> FALSE, next |-> FALSE,
                in0 |-> FsWord(0, 0)]

(***************************************************************************)
(* The CFU and its software: the mode registers (35, 36, 37, 12) are set  *)
(* before the first cycle; afterwards each cycle starts at most one       *)
(* instruction, and none while the InputStoreSetter has not answered.      *)
(***************************************************************************)
CfuOps ==
    { RegInputDepthWords, RegRestart, RegOutputParam, RegFilterValue,
      RegInputValue, RegStartRun, RegMarkRead }

\* Instructions of each kind that software issues in one behaviour
CfuBudget ==
    [ r \in CfuOps |->
        IF r = RegInputValue THEN MaxCfuWords
        ELSE IF r = RegFilterValue THEN MaxCfuWords
        ELSE IF r = RegInputDepthWords THEN MaxCfuWrites + 1
        ELSE MaxCfuWrites ]

CfuConfigs ==
    { c \in [ switch_PorD : {0, 1}, num_tile : 0..1, offset : {0},
              input_width : {2}, pp_cycles : {1} ] :
        c.num_tile = c.switch_PorD }

\* issued: instructions of each kind issued so far
CfuHist_reset == [ issued |-> [r \in CfuOps |-> 0] ]

CfuHist_next(h, o) ==
    [ issued |-> IF o.op \in CfuOps
                 THEN [h.issued EXCEPT ![o.op] = @ + 1]
                 ELSE h.issued ]

CfuInputs(h, u) ==
    { o \in [ op : CfuOps \cup {0}, in0 : {2}, space : {TRUE} ] :
        /\ u.busy => o.op = 0
        /\ o.op \in CfuOps => h.issued[o.op] < CfuBudget[o.op] }

CfuParked ==
    /\ cfu = Cfu_reset
    /\ cfu_in = [op |-> 0, in0 |-> 2, space |-> FALSE]
    /\ cfu_cfg = [ switch_PorD |-> 0, num_tile |-> 0, offset |-> 0,
                   input_width |-> 2, pp_cycles |-> 1 ]
    /\ cfu_hist = CfuHist_reset

(***************************************************************************)
(* The multiplier and accumulator on their own.  i_data comes from the    *)
(* InputStore, which in pointwise mode shows input byte + offset in each   *)
(* lane; f_data comes from the FilterValueFetcher, which shows the        *)
(* sign-extended filter bytes.  add_en and clear are driven freely.        *)
(***************************************************************************)
\* Pattern k of signed bytes, one byte per lane
MacBytes(k) == [n \in Lanes |-> (((n * 37 + 11) * (2 * k + 1)) % 256) - 128]

MacConfigs == [ switch_PorD : {0, 1}, offset : {0, 128} ]

\* i_data: as InputStore.r_data shows the bytes b
Mac_i_data(b, c) ==
    [n \in Lanes |-> Signed12(b[n] + (IF c.switch_PorD = 0 THEN c.offset ELSE 0))]

\* f_data: as FilterValueFetcher.data shows the bytes b
Mac_f_data(b) == [n \in Lanes |-> Signed12(b[n])]

\* adds:   add_en pulses since the last clear
\* sum:    sum of the batches added since the last clear
\* bytes1, bytes2: input and filter bytes presented one and two cycles ago
\* prod1, prod2:   the products of one and two cycles ago
MacHist_init(on) ==
    [ on |-> on, adds |-> 0, sum |-> 0,
      bytes1 |-> [i |-> [n \in Lanes |-> 0], f |-> [n \in Lanes |-> 0]],
      bytes2 |-> [i |-> [n \in Lanes |-> 0], f |-> [n \in Lanes |-> 0]],
      prod1 |-> [n \in Lanes |-> 0], prod2 |-> [n \in Lanes |-> 0] ]

RECURSIVE MacBatch(_, _, _)
\* The sum over the lanes 0..n-1 of (input byte + offset) * filter byte
MacBatch(b, off, n) ==
    IF n = 0 THEN 0
    ELSE MacBatch(b, off, n - 1) + ((b.i[n] + off) * b.f[n])

MacHist_next(h, s, i, c) ==
    [ on     |-> h.on,
      adds   |-> IF i.clear \/ c.switch_PorD = 1 THEN 0
                 ELSE IF i.add_en THEN h.adds + 1 ELSE h.adds,
      sum    |-> IF i.clear \/ c.switch_PorD = 1 THEN 0
                 ELSE IF i.add_en
                 THEN h.sum + MacBatch(h.bytes2, c.offset, 8)
                 ELSE h.sum,
      bytes1 |-> [i |-> MacBytes(i.ik), f |-> MacBytes(i.fk)],
      bytes2 |-> h.bytes1,
      prod1  |-> Mul8Pipeline_products(s),
      prod2  |-> h.prod1 ]

MacInputs(h, c) ==
    { [ ik |-> a, fk |-> b, add_en |-> e, clear |-> x,
        i_data |-> Mac_i_data(MacBytes(a), c),
        f_data |-> Mac_f_data(MacBytes(b)) ] :
        a \in 0..(MacPatterns - 1), b \in 0..(MacPatterns - 1),
        e \in IF h.adds < MaxMacAdds THEN BOOLEAN ELSE {FALSE},
        x \in BOOLEAN }

MacParked ==
    /\ mac = Mac_reset
    /\ mac_cfg = [switch_PorD |-> 0, offset |-> 0]
    /\ mac_hist = MacHist_init(FALSE)
    /\ mac_in = [ ik |-> 0, fk |-> 0, add_en |-> FALSE, clear |-> FALSE,
                  i_data |-> Mac_i_data(MacBytes(0), mac_cfg),
                  f_data |-> Mac_f_data(MacBytes(0)) ]

(***************************************************************************)
(* Components at rest                                                    *)
(***************************************************************************)
\* The Sequencer held in its reset state, for the specifications that do not
\* clock it.
SeqParked ==
    /\ seq = Sequencer_reset
    /\ cfg = [ switch_PorD |-> 0, num_tile |-> 0, filter_value_words |-> 2,
               input_depth_words |-> 2, pp_cycles |-> 1 ]
    /\ seq_in = [ start_run |-> FALSE, restart |-> FALSE,
                  in_store_ready |-> FALSE, fifo_has_space |-> FALSE ]
    /\ hist = Hist_reset

\* The InputStore held in its reset state, for the specifications that do
\* not clock it.
InsParked ==
    /\ ins = InputStore_reset
    /\ ins_cfg = [ switch_PorD |-> 0, input_depth |-> 1, offset |-> 0,
                   input_width |-> 0, pad |-> 2 ]
    /\ ins_in = [ restart |-> FALSE, w_en |-> FALSE, r_next |-> FALSE,
                  r_finished |-> FALSE, w_data |-> ZeroWord ]
    /\ ins_hist = InsHist_init(FALSE, 0)

\* The ByteToWordShifter held in its reset state, for the specifications
\* that do not clock it.
BtwParked ==
    /\ btw = ByteToWordShifter_reset
    /\ btw_in = [shift_en |-> FALSE, in_value |-> 0]
    /\ btw_hist = <<>>

\* The output queue held empty, for the specifications that do not clock it.
OqParked ==
    /\ oq = Oq_reset
    /\ oq_in = [r_en |-> FALSE]

(***************************************************************************)
(* Specification of the Sequencer                                         *)
(***************************************************************************)
InitSeq ==
    /\ seq = Sequencer_reset
    /\ cfg \in SeqConfigs
    /\ seq_in \in SeqInputs
    /\ hist = Hist_reset
    /\ SeqEnvAllows(hist, seq_in)
    /\ InsParked
    /\ FsParked
    /\ CfuParked
    /\ MacParked
    /\ OqParked
    /\ BtwParked

\* One clock edge of the Sequencer, followed by the inputs of the next cycle.
SeqTick ==
    /\ seq' = Sequencer_next(seq, seq_in, cfg)
    /\ hist' = Hist_next(hist, seq, seq_in, cfg)
    /\ \E n \in SeqInputs : SeqEnvAllows(hist', n) /\ seq_in' = n
    /\ UNCHANGED <<cfg, insVars, fsVars, cfuVars, macVars, oqVars, btwVars>>

NextSeq == SeqTick

SpecSeq == InitSeq /\ [][NextSeq]_vars

(***************************************************************************)
(* Specification of the InputStore                                        *)
(***************************************************************************)
InitIns ==
    /\ ins = InputStore_reset
    /\ ins_cfg \in InsConfigs
    /\ ins_hist = InsHist_init(FALSE, MaxInsRestarts)
    /\ ins_in \in InsInputs(ins_hist, ins)
    /\ SeqParked
    /\ FsParked
    /\ CfuParked
    /\ MacParked
    /\ OqParked
    /\ BtwParked

InitInsData ==
    /\ ins = InputStore_reset
    /\ ins_cfg \in InsDataConfigs
    /\ ins_hist = InsHist_init(TRUE, 0)
    /\ ins_in \in InsInputs(ins_hist, ins)
    /\ SeqParked
    /\ FsParked
    /\ CfuParked
    /\ MacParked
    /\ OqParked
    /\ BtwParked

\* One clock edge of the InputStore, followed by the inputs of the next
\* cycle.
InsTick ==
    /\ ins' = InputStore_next(ins, ins_in, ins_cfg)
    /\ ins_hist' = InsHist_next(ins_hist, ins, ins_in, ins_cfg)
    /\ ins_in' \in InsInputs(ins_hist', ins')
    /\ UNCHANGED <<ins_cfg, seqVars, fsVars, cfuVars, macVars, oqVars, btwVars>>

NextIns == InsTick

SpecIns == InitIns /\ [][NextIns]_vars

SpecInsData == InitInsData /\ [][NextIns]_vars

(***************************************************************************)
(* Specification of the filter store                                      *)
(***************************************************************************)
InitFs ==
    /\ fs = FilterStore_reset
    /\ fs_cfg \in FsConfigs
    /\ fs_hist = FsHist_init(TRUE)
    /\ fs_in \in FsInputs(fs_hist)
    /\ SeqParked
    /\ InsParked
    /\ CfuParked
    /\ MacParked
    /\ OqParked
    /\ BtwParked

\* One clock edge of the filter store, followed by the inputs of the next
\* cycle.
FsTick ==
    /\ fs' = FilterStore_next(fs, fs_in, fs_cfg)
    /\ fs_hist' = FsHist_next(fs_hist, fs_in, fs_cfg)
    /\ fs_in' \in FsInputs(fs_hist')
    /\ UNCHANGED <<fs_cfg, seqVars, insVars, cfuVars, macVars, oqVars, btwVars>>

NextFs == FsTick

SpecFs == InitFs /\ [][NextFs]_vars

(***************************************************************************)
(* Specification of the two stores, one of them clocked in a behaviour:   *)
(* the filter store, or the InputStore fed with a stream of distinct words *)
(***************************************************************************)
InitStores == InitFs \/ InitInsData

FsStoreTick == fs_hist.on /\ FsTick

InsStoreTick == ins_hist.tagged /\ InsTick

NextStores == FsStoreTick \/ InsStoreTick

SpecStores == InitStores /\ [][NextStores]_vars

(***************************************************************************)
(* Specification of the CFU                                               *)
(***************************************************************************)
\* The signals between the components in the current state
CfuWired ==
    /\ seq_in = Cfu_seq_in(cfu, cfu_in, ins)
    /\ cfg = Cfu_seq_cfg(cfu, cfu_cfg, fs)
    /\ fs_in = Cfu_fs_in(cfu, cfu_in, Sequencer_filter_next(seq, seq_in, cfg))
    /\ fs_cfg = [switch_PorD |-> cfu_cfg.switch_PorD]
    /\ ins_in = Cfu_ins_in(cfu, cfu_in, ins, Sequencer_gate(seq, seq_in),
                           Sequencer_all_output_finished(seq, seq_in, cfg))
    /\ ins_cfg = Cfu_ins_cfg(cfu, cfu_cfg)

InitCfu ==
    /\ seq = Sequencer_reset
    /\ fs = FilterStore_reset
    /\ ins = InputStore_reset
    /\ cfu = Cfu_reset
    /\ cfu_cfg \in CfuConfigs
    /\ cfu_hist = CfuHist_reset
    /\ cfu_in \in CfuInputs(cfu_hist, cfu)
    /\ hist = Hist_reset
    /\ ins_hist = InsHist_init(FALSE, 0)
    /\ fs_hist = FsHist_init(FALSE)
    /\ CfuWired
    /\ MacParked
    /\ OqParked
    /\ BtwParked

\* One clock edge of the CFU, followed by the instruction of the next cycle.
CfuTick ==
    /\ seq.fnext_count < MaxCfuGates
    /\ seq' = Sequencer_next(seq, seq_in, cfg)
    /\ fs' = FilterStore_next(fs, fs_in, fs_cfg)
    /\ ins' = InputStore_next(ins, ins_in, ins_cfg)
    /\ cfu' = Cfu_next(cfu, cfu_in, InputStore_w_ready(ins),
                       Sequencer_acc_done(seq, cfg))
    /\ cfu_hist' = CfuHist_next(cfu_hist, cfu_in)
    /\ cfu_in' \in CfuInputs(cfu_hist', cfu')
    /\ seq_in' = Cfu_seq_in(cfu', cfu_in', ins')
    /\ cfg' = Cfu_seq_cfg(cfu', cfu_cfg, fs')
    /\ fs_in' = Cfu_fs_in(cfu', cfu_in',
                          Sequencer_filter_next(seq', seq_in', cfg'))
    /\ fs_cfg' = fs_cfg
    /\ ins_in' = Cfu_ins_in(cfu', cfu_in', ins', Sequencer_gate(seq', seq_in'),
                     Sequencer_all_output_finished(seq', seq_in', cfg'))
    /\ ins_cfg' = Cfu_ins_cfg(cfu', cfu_cfg)
    /\ UNCHANGED <<cfu_cfg, hist, ins_hist, fs_hist, macVars, oqVars, btwVars>>

NextCfu == CfuTick

SpecCfu == InitCfu /\ [][NextCfu]_vars

(***************************************************************************)
(* Specification of the multiplier and accumulator                        *)
(***************************************************************************)
InitMac ==
    /\ mac = Mac_reset
    /\ mac_cfg \in MacConfigs
    /\ mac_hist = MacHist_init(TRUE)
    /\ mac_in \in MacInputs(mac_hist, mac_cfg)
    /\ SeqParked
    /\ InsParked
    /\ FsParked
    /\ CfuParked
    /\ OqParked
    /\ BtwParked

\* One clock edge of the multiplier and accumulator, followed by the inputs
\* of the next cycle.
MacTick ==
    /\ mac' = Mac_next(mac, mac_in, mac_cfg)
    /\ mac_hist' = MacHist_next(mac_hist, mac, mac_in, mac_cfg)
    /\ mac_in' \in MacInputs(mac_hist', mac_cfg)
    /\ UNCHANGED <<mac_cfg, seqVars, insVars, fsVars, cfuVars, oqVars, btwVars>>

NextMac == MacTick

SpecMac == InitMac /\ [][NextMac]_vars

(***************************************************************************)
(* Properties of the Sequencer, checked under SpecSeq.                     *)
(***************************************************************************)
gate == Sequencer_gate(seq, seq_in)
all_output_finished == Sequencer_all_output_finished(seq, seq_in, cfg)
mul_done == Sequencer_mul_done(seq, cfg)
pp_done == Sequencer_pp_done(seq, cfg)
acc_done == Sequencer_acc_done(seq, cfg)

\* C1: in every cycle gate = (running OR start_run) AND in_store_ready AND
\* fifo_has_space, so gate is never high while the input store is not ready
\* or the FIFO has no space; running is a latch that is 1 in the cycle after
\* start_run, 0 in the cycle after all_output_finished (which wins over a
\* simultaneous start_run), and holds otherwise.
C1_GateAndRunningLatch ==
    /\ [](gate = ((seq.running \/ seq_in.start_run)
                    /\ seq_in.in_store_ready /\ seq_in.fifo_has_space))
    /\ [](~seq_in.in_store_ready \/ ~seq_in.fifo_has_space => ~gate)
    /\ [][seq'.running = (IF all_output_finished THEN FALSE
                          ELSE IF seq_in.start_run THEN TRUE
                          ELSE seq.running)]_vars

\* C1 witness: gate is high in a cycle of a run that was started earlier.
C1_Witness == seq.running /\ ~seq_in.start_run /\ gate

\* A counter does not advance over a clock edge: it holds its value, or
\* restart returns it to zero.
Held(before, after) ==
    IF seq_in.restart THEN after = 0 ELSE after = before

\* C2 as stated: while fifo_has_space is false gate is false and none of the
\* four Sequencer counters advances.
C2_NoCounterAdvancesInStall ==
    [][~seq_in.fifo_has_space =>
          /\ ~gate
          /\ Held(seq.f_count, seq'.f_count)
          /\ Held(seq.fnext_count, seq'.fnext_count)
          /\ Held(seq.i_count, seq'.i_count)
          /\ Held(seq.four_count, seq'.four_count)]_vars

\* C2 amended: while fifo_has_space is false gate is false and the
\* filter-word and fnext counters do not advance; the input-word counter and
\* the 4-count move only on the delayed pulses (mul_done, pp_done) of gate
\* cycles that came before the stall; the filter-word counter always equals
\* the number of gate cycles since it was last zero, so that no gate cycle is
\* skipped or duplicated when space is reasserted.
C2_StallHoldsGateCounters ==
    /\ [](hist.gates = seq.f_count)
    /\ [][~seq_in.fifo_has_space =>
            /\ ~gate
            /\ Held(seq.f_count, seq'.f_count)
            /\ Held(seq.fnext_count, seq'.fnext_count)
            /\ Held(seq.i_count, seq'.i_count) \/ mul_done
            /\ Held(seq.four_count, seq'.four_count) \/ pp_done]_vars

\* C2 witness: a run is stalled by the FIFO part-way through (one gate cycle
\* counted, input store ready) while a mul_done pulse of an earlier gate
\* cycle arrives.
C2_Witness ==
    /\ ~seq_in.fifo_has_space /\ seq_in.in_store_ready /\ ~seq_in.restart
    /\ seq.running /\ seq.f_count = 1 /\ mul_done

C8_RestartAbortsRun ==
    hist.aborted /\ ~seq_in.start_run => ~gate

(***************************************************************************)
(* Properties of the InputStore.                                           *)
(***************************************************************************)
\* The buffer a memory address lies in.
BufferOf(a) == a \div InsHalfDepth

\* C4: no buffer is both writable and readable: r_ready implies that the
\* read-selected buffer is marked full, a write is accepted only into a
\* buffer not marked full, and the memory address of an accepted write never
\* lies in the buffer that is readable.  Checked under SpecIns.
C4_NoBufferWritableAndReadable ==
    /\ ins.r_ready => ins.r_full[ins.r_curr_buf + 1]
    /\ InputStore_accept(ins, ins_in) =>
          /\ ~ins.r_full[BufferOf(InputStore_dp_w_addr(ins)) + 1]
          /\ ins.r_ready => BufferOf(InputStore_dp_w_addr(ins)) # ins.r_curr_buf

\* C4 witness: a word is accepted part-way through one buffer while the
\* other buffer is readable.
C4_Witness ==
    InputStore_accept(ins, ins_in) /\ ins.r_ready /\ ins.w_addr > 0

\* Word k of buffer b as the memories hold it.
InsStored(b, k) == ins.mem[(k % 4) + 1][(b * InsHalfDepth) + (k \div 4)]

\* The pointwise r_data lanes of the words w0 and w1.
InsLanes(w0, w1) ==
    [n \in 1..8 |-> Signed12(CatByte(<<w0, w1>>, n - 1) + ins_cfg.offset)]

\* Over a clock edge the read selector moves only on r_finished or restart,
\* r_ready rises only on a buffer marked full, and a memory word changes only
\* in a buffer that is neither full nor readable.
InsEdgeKeepsReadableBuffer ==
    /\ (ins'.r_curr_buf # ins.r_curr_buf) =>
           (ins_in.r_finished \/ ins_in.restart)
    /\ (ins'.r_ready /\ ~ins.r_ready) =>
           (ins.r_full[ins.r_curr_buf + 1]
              /\ ins'.r_curr_buf = ins.r_curr_buf)
    /\ \A k \in 1..4 : \A a \in DOMAIN ins.mem[k] :
           (ins'.mem[k][a] # ins.mem[k][a]) =>
               (~ins.r_full[BufferOf(a) + 1]
                  /\ ~(ins.r_ready /\ ins.r_curr_buf = BufferOf(a)))

\* C5: while r_ready is high the read-selected buffer is full and holds
\* exactly the words of its last completed filling; a writer part-way
\* through a buffer is in the other buffer, and a memory word changes only
\* in a buffer that is neither full nor readable; in pointwise mode with an
\* even depth the data of every read, wrap-around reads included, are the
\* two words at the read address of that last completed filling; the read
\* selector moves only on r_finished or restart and r_ready rises only on a
\* buffer that is complete.  Checked under SpecInsData.
C5_ReadsSeeCompletedBuffer ==
    /\ [](ins.r_ready =>
            /\ ins.r_full[ins.r_curr_buf + 1]
            /\ Len(ins_hist.done[ins.r_curr_buf + 1]) = ins_cfg.input_depth
            /\ \A k \in 0..(ins_cfg.input_depth - 1) :
                  InsStored(ins.r_curr_buf, k)
                    = ins_hist.done[ins.r_curr_buf + 1][k + 1])
    /\ [](ins.r_ready /\ ins.w_addr > 0 => ins.w_curr_buf # ins.r_curr_buf)
    /\ [](ins_hist.prev.ready /\ ins_cfg.switch_PorD = 0
            /\ ins_cfg.input_depth % 2 = 0 =>
            \A n \in 1..8 :
                ins.r_data[n] =
                    InsLanes(ins_hist.done[ins_hist.prev.buf + 1]
                                          [ins_hist.prev.addr + 1],
                             ins_hist.done[ins_hist.prev.buf + 1]
                                          [ins_hist.prev.addr + 2])[n])
    /\ [][InsEdgeKeepsReadableBuffer]_vars

\* C5 witness: the data of a read that has wrapped round the six words of
\* one buffer arrive while the writer is part-way through the other.
C5_Witness ==
    /\ ins_hist.prev.ready /\ ins_hist.wrapped /\ ins.r_ready
    /\ ins_cfg.switch_PorD = 0 /\ ins_cfg.input_depth = 6
    /\ ins.w_addr > 0 /\ ins_hist.prev.addr = 0

(***************************************************************************)
(* Properties of the stores' read-back, checked under SpecStores.          *)
(***************************************************************************)
FsN == Len(fs_hist.written)

\* Byte k (as a signed value) of the words written, counted from the word
\* at index pos and wrapping round to the first word after the last.
FsByteFrom(pos, k) ==
    Signed8(WordByte(fs_hist.written[((pos + (k \div 4)) % FsN) + 1], k % 4))

\* The sixteen lanes the depthwise fetcher makes of the nine taps b[0..8] of
\* a 3x3 filter.
FsFilterLanes(b) ==
    << 4 * b[0],
       2 * (b[0] + b[1] + b[2]),
       2 * (b[0] + b[3] + b[6]),
       b[0] + b[1] + b[2] + b[3] + b[4] + b[5] + b[6] + b[7] + b[8],
       2 * (b[0] - b[1] + b[2]),
       4 * b[2],
       (b[0] + b[3] + b[6]) - (b[1] + b[4] + b[7]) + (b[2] + b[5] + b[8]),
       2 * (b[2] + b[5] + b[8]),
       2 * (b[0] - b[3] + b[6]),
       (b[0] - b[3] + b[6]) + (b[1] - b[4] + b[7]) + (b[2] - b[5] + b[8]),
       4 * b[6],
       2 * (b[6] + b[7] + b[8]),
       (b[0] - b[3] + b[6]) - (b[1] - b[4] + b[7]) + (b[2] - b[5] + b[8]),
       2 * (b[2] - b[5] + b[8]),
       2 * (b[6] - b[7] + b[8]),
       4 * b[8] >>

\* The fetcher shows the words at the read position, in write order.
FsShowsWrittenWords ==
    /\ fs_cfg.switch_PorD = 0 /\ fs_hist.p1.valid =>
          \A n \in 0..7 : fs.data[n + 1] = FsByteFrom(fs_hist.p1.pos, n)
    /\ fs_cfg.switch_PorD = 1 /\ fs_hist.p2.valid =>
          fs.data = FsFilterLanes([k \in 0..8 |-> FsByteFrom(fs_hist.p2.pos, k)])

\* The InputStore shows the words of the completed buffer at the read
\* address, in write order (pointwise).
InsShowsWrittenWords ==
    ins_hist.prev.ready /\ ins_cfg.switch_PorD = 0 =>
        LET done == ins_hist.done[ins_hist.prev.buf + 1]
            a    == ins_hist.prev.addr
        IN  /\ a < ins_cfg.input_depth
            /\ \A n \in 1..8 :
                  ins.r_data[n] = InsLanes(done[a + 1],
                                      done[((a + 1) % ins_cfg.input_depth) + 1])[n]

CountersZeroed ==
    /\ seq'.f_count = 0
    /\ seq'.fnext_count = 0
    /\ seq'.i_count = 0
    /\ seq'.four_count = 0
    /\ fs'.count = 0
    /\ fs'.r_addr = 0
    /\ cfu'.ps.count = 0
    /\ cfu'.ps.last_addr = 0

\* After the clock edge, the selectors and addresses of the InputStore are
\* zero and r_ready is down.
InsSelectorsZeroed ==
    /\ ins'.w_curr_buf = 0
    /\ ins'.r_curr_buf = 0
    /\ ins'.w_addr = 0
    /\ ins'.r_addr = 0
    /\ ~ins'.r_ready

InsFlagsZeroed == ins'.r_full = <<FALSE, FALSE>>

RestartZeroesEverything ==
    seq_in.restart => CountersZeroed /\ InsSelectorsZeroed /\ InsFlagsZeroed

RestartZeroesCounters ==
    /\ seq_in.restart => CountersZeroed
    /\ seq_in.restart => ~ins_in.restart
    /\ seq_in.restart /\ ins.r_ready /\ ~ins_in.r_finished =>
          ins'.r_ready /\ ins'.r_full[ins'.r_curr_buf + 1]
    /\ ins_in.restart => InsSelectorsZeroed
    /\ ins_in.restart /\ ~InputStore_complete(ins, ins_in, ins_cfg) =>
          InsFlagsZeroed

result == AccOrTrans_result(mac, mac_in, mac_cfg)

\* C9: in pointwise mode, in a cycle with add_en the accumulator output is
\* the sum, over the batches added since the last clear and the batch added
\* in this cycle, of (input byte + offset) * filter byte over the lanes 0..7
\* of the batch; the lanes 8..15 do not contribute.
C9_PointwiseSum ==
    mac_cfg.switch_PorD = 0 /\ mac_in.add_en =>
        result[1] = mac_hist.sum + MacBatch(mac_hist.bytes2, mac_cfg.offset, 8)

\* The last of three adds, together with clear, with a non-zero offset, a
\* non-zero sum so far and products in the lanes 8..15.
C9_Witness ==
    /\ mac_cfg.switch_PorD = 0
    /\ mac_cfg.offset = 128
    /\ mac_in.add_en
    /\ mac_in.clear
    /\ mac_hist.adds = MaxMacAdds - 1
    /\ mac_hist.sum # 0
    /\ MacBatch(mac_hist.bytes2, mac_cfg.offset, 16)
          # MacBatch(mac_hist.bytes2, mac_cfg.offset, 8)
    /\ result[1] # mac_hist.sum

\* The nine-product sums of the depthwise output transform
DepthwiseSums(p) ==
    << p[1] + p[2] + p[3] + p[4] + p[5] + p[7] + p[9] + p[10] + p[13],
       p[2] + p[4] + p[10] - p[5] - p[6] - p[7] - p[8] - p[13] - p[14],
       p[3] + p[4] + p[7] - p[9] - p[10] - p[11] - p[12] - p[13] - p[15],
       p[4] + p[13] + p[14] + p[15] + p[16] - p[7] - p[8] - p[10] - p[12] >>

\* q is the floor of one quarter of y
IsFloorQuarter(q, y) == 4 * q <= y /\ y <= 4 * q + 3

\* C10: in depthwise mode the four outputs are, two cycles later, the
\* floor of one quarter of the sums Y0..Y3 of nine products of one cycle.
C10_DepthwiseTransform ==
    mac_cfg.switch_PorD = 1 =>
        \A k \in 1..4 :
            IsFloorQuarter(result[k], DepthwiseSums(mac_hist.prod2)[k])

\* Products of two cycles ago whose four sums are different, are not
\* multiples of four and are not all of one sign.
C10_Witness ==
    /\ mac_cfg.switch_PorD = 1
    /\ \E k \in 1..4 : DepthwiseSums(mac_hist.prod2)[k] % 4 # 0
                          /\ DepthwiseSums(mac_hist.prod2)[k] < 0
    /\ \E k \in 1..4 : DepthwiseSums(mac_hist.prod2)[k] > 0
    /\ mac_hist.prod2 # mac_hist.prod1
    /\ \A k \in 1..4 : result[k] * 4 # DepthwiseSums(mac_hist.prod1)[k]
    /\ \A k \in 1..4 : mac_hist.prod2[12 + k] # 0

(***************************************************************************)
(* The depthwise chain on its own: the filter transform of the            *)
(* FilterValueFetcher, the input transform of the InputStore, the sixteen *)
(* multipliers and the output transform of AccOrTrans.  A 3x3 filter, a   *)
(* 4x4 input tile and the offset are chosen before the first cycle; in    *)
(* each cycle the stores show either the chosen filter and tile or words  *)
(* that are all zero.                                                     *)
(***************************************************************************)
\* Number of filters the chain is presented with: a single tap of -128 in
\* each of the nine positions, all taps 127, all taps -128, and taps that are
\* all different.
WinoFilters == 13
\* Number of tiles: a single byte of 127 in each of the sixteen positions,
\* all bytes 127, all bytes -128, and bytes that are all different.
WinoTiles == 20

\* Offsets: zero, the zero-point offset of the tests (128), the largest
\* magnitudes for which lane 3 of r_data holds offset << 2 for every tile,
\* and the first offset beyond them.
WinoOffsets == {-384, 0, 128, 384, 385}

\* Byte t of filter k, as the memory holds it; the bytes 9..11 of the three
\* words belong to the next filter.
WinoFilterByte(k, t) ==
    IF k < 9 /\ t < 9 THEN (IF t = k THEN 128 ELSE 0)
    ELSE IF k = 9 /\ t < 9 THEN 127
    ELSE IF k = 10 /\ t < 9 THEN 128
    ELSE ((k * 31 + t * 67 + 29) * 37) % 256

\* Byte t of tile m, as the memory holds it.
WinoTileByte(m, t) ==
    IF m < 16 THEN (IF t = m THEN 127 ELSE 0)
    ELSE IF m = 16 THEN 127
    ELSE IF m = 17 THEN 128
    ELSE ((m * 53 + t * 71 + 13) * 41) % 256

WinoFilterWords(k) ==
    [w \in 1..3 |-> [j \in 1..4 |-> WinoFilterByte(k, 4 * (w - 1) + j - 1)]]

WinoTileWords(m) ==
    [w \in 1..4 |-> [j \in 1..4 |-> WinoTileByte(m, 4 * (w - 1) + j - 1)]]

WinoZeroFilter == <<ZeroWord, ZeroWord, ZeroWord>>

WinoZeroTile == <<ZeroWord, ZeroWord, ZeroWord, ZeroWord>>

WinoConfigs ==
    [ switch_PorD : {1}, offset : WinoOffsets,
      filter : 0..(WinoFilters - 1), tile : 0..(WinoTiles - 1) ]

\* i_data: InputStore.r_data one cycle after tmp held the tile tw
Wino_i_data(tw, c) ==
    InputStore_r_data_D([r_data_tmp |-> InputStore_transform(tw)], c)

\* f_data: FilterValueFetcher.data one cycle after tmp held the filter fw
Wino_f_data(fw) ==
    FilterValueFetcher_data_D(FilterValueFetcher_data_tmp(fw),
                              FilterValueFetcher_late_tmp(fw))

\* p1, p2, p3: whether the chosen filter and tile were shown one, two and
\* three cycles ago
WinoHist_init == [ on |-> TRUE, p1 |-> FALSE, p2 |-> FALSE, p3 |-> FALSE ]

WinoHist_next(h, i) ==
    [ on |-> h.on, p1 |-> i.present, p2 |-> h.p1, p3 |-> h.p2 ]

WinoInputs(c) ==
    { [ present |-> p, add_en |-> FALSE, clear |-> FALSE,
        i_data |-> Wino_i_data(IF p THEN WinoTileWords(c.tile)
                               ELSE WinoZeroTile, c),
        f_data |-> Wino_f_data(IF p THEN WinoFilterWords(c.filter)
                               ELSE WinoZeroFilter) ] : p \in BOOLEAN }

(***************************************************************************)
(* Specification of the depthwise chain                                   *)
(***************************************************************************)
InitWino ==
    /\ mac = Mac_reset
    /\ mac_cfg \in WinoConfigs
    /\ mac_hist = WinoHist_init
    /\ mac_in \in WinoInputs(mac_cfg)
    /\ SeqParked
    /\ InsParked
    /\ FsParked
    /\ CfuParked
    /\ OqParked
    /\ BtwParked

\* One clock edge of the multipliers and the output transform, followed by
\* the words the stores show in the next cycle.
WinoTick ==
    /\ mac' = Mac_next(mac, mac_in, mac_cfg)
    /\ mac_hist' = WinoHist_next(mac_hist, mac_in)
    /\ mac_in' \in WinoInputs(mac_cfg)
    /\ UNCHANGED <<mac_cfg, seqVars, insVars, fsVars, cfuVars, oqVars, btwVars>>

NextWino == WinoTick

SpecWino == InitWino /\ [][NextWino]_vars

(***************************************************************************)
(* Properties of the depthwise chain, checked under SpecWino.             *)
(***************************************************************************)
\* Byte of the four tile words that holds d[r][c]: word 0 is the 2x2 block
\* at the current position, word 1 the block in the next column, word 2 the
\* block in the next row, word 3 the block in the next row and column.
TileIndex(r, c) == 4 * (2 * (r \div 2) + (c \div 2)) + 2 * (r % 2) + (c % 2)

RECURSIVE ConvSum(_, _, _, _, _, _)
\* The first n terms of the 3x3 convolution sum at output (i, j): the filter
\* tap g[r][c] is byte 3r + c of fw.
ConvSum(fw, tw, off, i, j, n) ==
    IF n = 0 THEN 0
    ELSE LET k == n - 1
         IN  ConvSum(fw, tw, off, i, j, k)
               + CatByte(fw, k)
                   * (CatByte(tw, TileIndex(i + (k \div 3), j + (k % 3))) + off)

\* The filter and tile that were shown three cycles ago
WinoFilterShown ==
    IF mac_hist.p3 THEN WinoFilterWords(mac_cfg.filter) ELSE WinoZeroFilter

WinoTileShown ==
    IF mac_hist.p3 THEN WinoTileWords(mac_cfg.tile) ELSE WinoZeroTile

\* out[i][j] is result[2i + j], and Y holds four times the sum.
ChainIsDirectConvolution ==
    \A i \in {0, 1} : \A j \in {0, 1} :
        LET out == ConvSum(WinoFilterShown, WinoTileShown, mac_cfg.offset,
                           i, j, 9)
        IN  /\ result[2 * i + j + 1] = out
            /\ mac.Y[2 * i + j + 1] = 4 * out

\* C11 as stated: for every filter, every tile and every offset the chain
\* filter transform, input transform, sixteen products, output transform
\* yields the four direct 3x3 convolution sums of g and d + off, with no
\* rounding error in the shift by two.
C11_ChainExactForEveryOffset == ChainIsDirectConvolution

\* C11, amended: for every filter, every tile and every offset from -384 to
\* 384 (which includes every zero-point offset of 8-bit data) the chain
\* yields the four direct 3x3 convolution sums of g and d + off, Y being
\* exactly four times the sum so that the shift by two loses nothing.
C11_ChainExactForSmallOffsets ==
    mac_cfg.offset >= -384 /\ mac_cfg.offset <= 384 => ChainIsDirectConvolution

\* A filter of nine different taps and a tile of sixteen different bytes,
\* shown three cycles ago with the offset 128: four different sums arrive,
\* none of them zero, while the stores show zeros.
C11_Witness ==
    /\ mac_hist.p3 /\ ~mac_hist.p2 /\ ~mac_hist.p1
    /\ mac_cfg.offset = 128
    /\ mac_cfg.filter = 11
    /\ mac_cfg.tile = 18
    /\ \A k \in 1..4 : result[k] # 0
    /\ \A k \in 1..4 : \A l \in 1..4 : k # l => result[k] # result[l]
    /\ result[1] = ConvSum(WinoFilterWords(11), WinoTileWords(18), 128, 0, 0, 9)

(***************************************************************************)
(* Whole runs of the Sequencer: software starts a run when none is in     *)
(* progress and does not restart; in_store_ready and fifo_has_space come  *)
(* and go freely.                                                          *)
(***************************************************************************)
\* Largest number of filter words of a pointwise run
MaxRunWords == 16
\* Largest number of input words per pixel of a pointwise run
MaxRunDepth == 4
\* Largest number of tiles of a depthwise run
MaxRunTiles == 3
\* Number of runs that software starts in one behaviour
MaxRuns == 2

\* Pointwise runs have D even and F a multiple of 4 * D; num_tile is at its
\* reset value or left over from a depthwise layer.  Depthwise runs do not
\* read the word counts.
RunConfigs ==
    { c \in [ switch_PorD : {0, 1},
              num_tile : 0..MaxRunTiles,
              filter_value_words : 1..MaxRunWords,
              input_depth_words : 1..MaxRunDepth,
              pp_cycles : PostProcessorCycles ] :
        /\ c.switch_PorD = 0 =>
              /\ c.input_depth_words % 2 = 0
              /\ c.filter_value_words % (4 * c.input_depth_words) = 0
              /\ c.num_tile \in {0, MaxRunTiles}
        /\ c.switch_PorD = 1 =>
              /\ c.num_tile >= 1
              /\ c.filter_value_words = 8
              /\ c.input_depth_words = 2 }

\* runs:     start_run pulses so far
\* finished: all_output_finished pulses so far
\* gates, muls, accs, pps, outs: gate cycles and mul_done, acc_done, pp_done
\*           and out_word_done pulses so far
\* gate_ago: gate of the last ten cycles, the latest first
RunHist_reset ==
    [ runs |-> 0, finished |-> 0, gates |-> 0, muls |-> 0, accs |-> 0,
      pps |-> 0, outs |-> 0, gate_ago |-> [k \in 1..10 |-> FALSE] ]

Count(b) == IF b THEN 1 ELSE 0

RunHist_next(h, s, i, c) ==
    [ runs     |-> h.runs + Count(i.start_run),
      finished |-> h.finished + Count(Sequencer_all_output_finished(s, i, c)),
      gates    |-> h.gates + Count(Sequencer_gate(s, i)),
      muls     |-> h.muls + Count(Sequencer_mul_done(s, c)),
      accs     |-> h.accs + Count(Sequencer_acc_done(s, c)),
      pps      |-> h.pps + Count(Sequencer_pp_done(s, c)),
      outs     |-> h.outs + Count(Sequencer_out_word_done(s, c)),
      gate_ago |-> <<Sequencer_gate(s, i)>> \o SubSeq(h.gate_ago, 1, 9) ]

RunInputs(h, s) ==
    { i \in SeqInputs :
        /\ ~i.restart
        /\ i.start_run => ~s.running /\ h.runs < MaxRuns }

(***************************************************************************)
(* Specification of whole runs                                            *)
(***************************************************************************)
InitRun ==
    /\ seq = Sequencer_reset
    /\ cfg \in RunConfigs
    /\ hist = RunHist_reset
    /\ seq_in \in RunInputs(hist, seq)
    /\ InsParked
    /\ FsParked
    /\ CfuParked
    /\ MacParked
    /\ OqParked
    /\ BtwParked

\* One clock edge of the Sequencer, followed by the inputs of the next cycle.
RunTick ==
    /\ seq' = Sequencer_next(seq, seq_in, cfg)
    /\ hist' = RunHist_next(hist, seq, seq_in, cfg)
    /\ seq_in' \in RunInputs(hist', seq')
    /\ UNCHANGED <<cfg, insVars, fsVars, cfuVars, macVars, oqVars, btwVars>>

NextRun == RunTick

SpecRun == InitRun /\ [][NextRun]_vars

(***************************************************************************)
(* Properties of whole runs, checked under SpecRun.                       *)
(***************************************************************************)
\* Every run that was started has finished and no pulse is on its way
\* through a delay line.
Drained ==
    /\ ~seq.running
    /\ hist.runs = hist.finished
    /\ seq.mul_delay = Delayer_reset
    /\ seq.pp_delay = Delayer_reset
    /\ seq.depth2_delay = Delayer_reset

\* After k pointwise runs of F filter words and D input words have drained:
\* k * F/2 gate cycles, k * F/D acc_done and pp_done pulses and k * F/(4D)
\* out_word_done pulses, and the filter-word, input-word and 4-count
\* counters at zero.
PointwiseRunTotals ==
    LET F == cfg.filter_value_words
        D == cfg.input_depth_words
        k == hist.finished
    IN  /\ hist.gates = k * (F \div 2)
        /\ hist.muls = k * (F \div 2)
        /\ hist.accs = k * (F \div D)
        /\ hist.pps = k * (F \div D)
        /\ hist.outs = k * (F \div (4 * D))
        /\ seq.f_count = 0
        /\ seq.i_count = 0
        /\ seq.four_count = 0

\* C12 as stated: a pointwise run of F filter words and D input words per
\* pixel (D even, F a multiple of 4D) makes F/2 gate cycles, F/D acc_done
\* pulses, F/D pp_done pulses and F/(4D) out_word_done pulses, and once these
\* have drained all four counters of the Sequencer are back at 0, so that a
\* run that follows makes the same number of output words.
C12_RunLeavesAllCountersZero ==
    cfg.switch_PorD = 0 /\ Drained =>
        PointwiseRunTotals /\ seq.fnext_count = 0

\* C12, amended: a pointwise run of F filter words and D input words per
\* pixel (D even, F a multiple of 4D) makes F/2 gate cycles, F/D acc_done
\* pulses, F/D pp_done pulses and F/(4D) out_word_done pulses, and once these
\* have drained the filter-word, input-word and 4-count counters are back at
\* 0, so that a run that follows makes the same number of output words; the
\* fnext counter, which pointwise mode does not read, holds the number of
\* gate cycles so far modulo num_tile (modulo 2^16 while num_tile is 0).
C12_RunLeavesWordCountersZero ==
    cfg.switch_PorD = 0 /\ Drained =>
        /\ PointwiseRunTotals
        /\ seq.fnext_count =
              hist.gates % (IF cfg.num_tile = 0 THEN Pow2(NumTileWidth)
                            ELSE cfg.num_tile)

\* Two runs of sixteen filter words and two input words per pixel have
\* drained: sixteen gate cycles and four output words.
C12_Witness ==
    /\ cfg.switch_PorD = 0
    /\ Drained
    /\ hist.finished = 2
    /\ cfg.filter_value_words = 16
    /\ cfg.input_depth_words = 2
    /\ hist.gates = 16
    /\ hist.outs = 4

\* C13: in depthwise mode out_word_done is mul_done delayed by the latency of
\* the post-processor, that is gate delayed by five cycles and that latency,
\* so that every gate cycle yields one out_word_done; after k runs of
\* num_tile gate cycles have drained, k * num_tile words have been written to
\* the output queue (its write enable is out_word_done) and acc_done, which
\* advances the parameter stores, has been raised k times.
C13_DepthwiseWordPerGate ==
    cfg.switch_PorD = 1 =>
        /\ Sequencer_mul_done(seq, cfg) = hist.gate_ago[MulCyclesD]
        /\ Sequencer_out_word_done(seq, cfg)
              = hist.gate_ago[MulCyclesD + cfg.pp_cycles]
        /\ Drained =>
              /\ hist.gates = hist.finished * cfg.num_tile
              /\ hist.outs = hist.finished * cfg.num_tile
              /\ hist.accs = hist.finished

\* Two depthwise runs of three tiles have drained: six words written, two
\* acc_done pulses.
C13_Witness ==
    /\ cfg.switch_PorD = 1
    /\ Drained
    /\ cfg.num_tile = 3
    /\ hist.finished = 2
    /\ hist.outs = 6
    /\ hist.accs = 2

(***************************************************************************)
(* The Sequencer and the output queue: out_word_done is the write enable   *)
(* of the queue and oq_has_space the fifo_has_space input of the          *)
(* Sequencer.  The InputStore is ready throughout; software starts runs   *)
(* and reads the queue (register 34) when it pleases.                     *)
(***************************************************************************)
\* Number of tiles of a depthwise run
MaxQueueTiles == 14
\* Number of runs that software starts in one behaviour
MaxQueueRuns == 4

QueueConfigs ==
    { c \in [ switch_PorD : {0, 1},
              num_tile : {0, MaxQueueTiles},
              filter_value_words : {8, MaxRunWords},
              input_depth_words : {2},
              pp_cycles : PostProcessorCycles ] :
        /\ c.switch_PorD = 0 => c.num_tile = 0 /\ c.filter_value_words = MaxRunWords
        /\ c.switch_PorD = 1 => c.num_tile > 0 /\ c.filter_value_words = 8 }

QueueSeqInputs(h, s, q) ==
    { i \in SeqInputs :
        /\ ~i.restart
        /\ i.start_run => ~s.running /\ h.runs < MaxQueueRuns
        /\ i.in_store_ready
        /\ i.fifo_has_space = Oq_has_space(q) }

QueueInputs == [ r_en : BOOLEAN ]

InitQueue ==
    /\ seq = Sequencer_reset
    /\ oq = Oq_reset
    /\ cfg \in QueueConfigs
    /\ hist = RunHist_reset
    /\ seq_in \in QueueSeqInputs(hist, seq, oq)
    /\ oq_in \in QueueInputs
    /\ InsParked
    /\ FsParked
    /\ CfuParked
    /\ MacParked
    /\ BtwParked

\* One clock edge of the Sequencer and the queue, followed by the inputs of
\* the next cycle.
QueueTick ==
    /\ seq' = Sequencer_next(seq, seq_in, cfg)
    /\ oq' = Oq_next(oq, Sequencer_out_word_done(seq, cfg), oq_in.r_en)
    /\ hist' = RunHist_next(hist, seq, seq_in, cfg)
    /\ seq_in' \in QueueSeqInputs(hist', seq', oq')
    /\ oq_in' \in QueueInputs
    /\ UNCHANGED <<cfg, insVars, fsVars, cfuVars, macVars, btwVars>>

NextQueue == QueueTick

SpecQueue == InitQueue /\ [][NextQueue]_vars

(***************************************************************************)
(* Properties of the output queue, checked under SpecQueue.               *)
(***************************************************************************)
\* The out_word_done pulses that are still to come from the gate cycles so
\* far
WordsOnTheWay == hist.gates \div (IF cfg.switch_PorD = 0 THEN 4 ELSE 1) - hist.outs

MaxParamRestarts == 2
MaxParamNexts == 9

\* restarts: restart instructions so far
\* items:    parameters written since the last restart
\* nexts:    next pulses since the last restart
ParamHist_reset == [ restarts |-> 0, items |-> 0, nexts |-> 0 ]

ParamHist_next(h, u, o) ==
    LET restart == u.set = RegRestart
    IN  [ restarts |-> h.restarts + (IF o.op = RegRestart THEN 1 ELSE 0),
          items    |-> IF restart THEN 0
                       ELSE IF o.op = RegOutputParam THEN h.items + 1
                       ELSE h.items,
          nexts    |-> IF restart THEN 0
                       ELSE IF o.next THEN h.nexts + 1
                       ELSE h.nexts ]

ParamInputs(h, u) ==
    { o \in [ op : {0, RegRestart, RegOutputParam}, in0 : {2},
              space : {TRUE}, next : BOOLEAN ] :
        /\ o.op = RegRestart => h.restarts < MaxParamRestarts
        /\ o.op = RegOutputParam => /\ u.set # RegRestart
                                    /\ h.nexts = 0
                                    /\ h.items < PsDepth
        /\ o.next => /\ o.op # RegOutputParam
                     /\ h.items >= 1
                     /\ h.nexts < MaxParamNexts }

InitParam ==
    /\ SeqParked
    /\ InsParked
    /\ FsParked
    /\ MacParked
    /\ OqParked
    /\ BtwParked
    /\ cfu_cfg = [ switch_PorD |-> 0, num_tile |-> 0, offset |-> 0,
                   input_width |-> 2, pp_cycles |-> 1 ]
    /\ \E sub \in SubShapes :
           cfu = [Cfu_reset EXCEPT !.ps.sub = sub]
    /\ cfu_hist = ParamHist_reset
    /\ cfu_in \in ParamInputs(cfu_hist, cfu)

ParamTick ==
    /\ cfu' = Cfu_next(cfu, cfu_in, TRUE, cfu_in.next)
    /\ cfu_hist' = ParamHist_next(cfu_hist, cfu, cfu_in)
    /\ cfu_in' \in ParamInputs(cfu_hist', cfu')
    /\ UNCHANGED <<cfu_cfg, seqVars, insVars, fsVars, macVars, oqVars, btwVars>>

NextParam == ParamTick

SpecParam == InitParam /\ [][NextParam]_vars

\* The address the incrementer emits in the cycle
Param_r_addr == ParamStore_r_addr(cfu.ps, cfu.set = RegRestart, cfu_in.next)

\* The address after the pulses of the cycle, for a store of L items
ParamExpected(L) ==
    IF cfu.set = RegRestart THEN 0
    ELSE (cfu_hist.nexts + (IF cfu_in.next THEN 1 ELSE 0)) % L

FsEnabledBanks ==
    { n \in 0..3 : StoreSetter_w_en(fs.count, fs_in.start, fs_in.restart, n) }

\* One clock edge seen from the StoreSetter.  A store that holds
\* 4 * FsBankDepth words is full: w_addr has no address for a further word.
C16_WriteStep ==
    /\ fs_in.start /\ ~fs_in.restart =>
           /\ FsEnabledBanks = {fs.count % 4}
           /\ StoreSetter_updated(fs_in.start, fs_in.restart)
           /\ fs'.count = fs.count + 1
           /\ fs.count < 4 * FsBankDepth =>
                  /\ StoreSetter_w_addr(fs.count) = fs.count \div 4
                  /\ fs'.mem[(fs.count % 4) + 1][fs.count \div 4] = fs_in.in0
    /\ ~fs_in.start /\ ~fs_in.restart =>
           /\ FsEnabledBanks = {}
           /\ ~StoreSetter_updated(fs_in.start, fs_in.restart)
           /\ fs'.count = fs.count
           /\ fs'.mem = fs.mem
    /\ Len(fs_hist'.written) <= 4 * FsBankDepth =>
           \A k \in 0..(Len(fs_hist'.written) - 1) :
               fs'.mem[(k % 4) + 1][k \div 4] = fs_hist'.written[k + 1]

\* C16: a write (start without restart) enables exactly the bank count mod 4,
\* raises updated and adds one to count, and while the store is not full
\* its address is count div 4 and its data in0, so after every clock edge
\* the k-th word written since the restart is in bank k mod 4 at address
\* k div 4; a cycle with neither start nor restart enables no bank, keeps
\* updated low and leaves count and the memories unchanged.
C16_WritesAreStriped == [][C16_WriteStep]_vars

\* A word has been written to the second address of a bank, and the next
\* write is under way.
C16_Witness ==
    /\ fs_hist.on
    /\ Len(fs_hist.written) = 6
    /\ fs.count = 6
    /\ fs.mem[2][1] = fs_hist.written[6]
    /\ fs_in.start
    /\ ~fs_in.restart

(***************************************************************************)
(* The write side of the InputStore (SpecInsData)                         *)
(***************************************************************************)
\* One clock edge without restart, seen from the write port.
C17_WriteStep ==
    LET wb == ins.w_curr_buf
        last == ins.w_addr = ins_cfg.input_depth - 1
    IN  ~ins_in.restart =>
        /\ InputStore_accept(ins, ins_in) /\ last =>
               /\ ins'.w_addr = 0
               /\ ins'.w_curr_buf = 1 - wb
               /\ (ins_in.r_finished => ins.r_curr_buf # wb) =>
                      ins'.r_full[wb + 1]
        /\ InputStore_accept(ins, ins_in) /\ ~last =>
               /\ ins'.w_addr = ins.w_addr + 1
               /\ ins'.w_curr_buf = wb
               /\ ins'.r_full[wb + 1] = ins.r_full[wb + 1]
        /\ ins_in.w_en /\ ~InputStore_w_ready(ins) =>
               /\ ins'.mem = ins.mem
               /\ ins'.w_addr = ins.w_addr
               /\ ins'.w_curr_buf = wb
               /\ ~ins_in.r_finished => ins'.r_full = ins.r_full
               /\ ins' = InputStore_next(ins, [ins_in EXCEPT !.w_en = FALSE],
                                         ins_cfg)

C18_ReadStep ==
    ~ins_in.restart =>
        /\ ins_in.r_finished =>
               /\ ~ins'.r_full[ins.r_curr_buf + 1]
               /\ ins'.r_curr_buf = 1 - ins.r_curr_buf
               /\ ins'.r_addr = 0
               /\ ~ins'.r_ready
        /\ \A b \in 0..1 :
               ins.r_full[b + 1] /\ ~ins'.r_full[b + 1] =>
                   ins_in.r_finished /\ b = ins.r_curr_buf

\* C18: restart aside, r_finished leaves the read-selected buffer empty,
\* the read-buffer selector flipped, the read address 0 and r_ready low,
\* with or without r_next in the same cycle; and a full flag that falls
\* is the flag of the read-selected buffer in a cycle with r_finished.
C18_FinishedFreesTheBuffer == [][C18_ReadStep]_vars

\* r_finished together with r_next on a buffer that is being read beyond
\* its first address, the other buffer full as well.
C18_Witness ==
    /\ ins.r_full = <<TRUE, TRUE>>
    /\ ins.r_ready
    /\ ins.r_addr > 0
    /\ ins_in.r_finished
    /\ ins_in.r_next
    /\ ~ins_in.restart

(***************************************************************************)
(* clear and add_en of the accumulator (SpecMac)                          *)
(***************************************************************************)
\* One clock edge in pointwise mode.  mac.add_sum is the partial sum of the
\* batch presented two cycles ago.
C19_AccumulatorStep ==
    mac_cfg.switch_PorD = 0 =>
        /\ mac_in.clear => mac'.accumulator = 0
        /\ ~mac_in.clear /\ ~mac_in.add_en => mac'.accumulator = mac.accumulator
        /\ mac.add_sum = MacBatch(mac_hist.bytes2, mac_cfg.offset, 8)
        /\ ~mac_in.add_en => result[1] = mac.accumulator
        /\ mac_in.add_en => result[1] = mac.accumulator + mac.add_sum

\* C19: in pointwise mode the accumulator is 0 after every cycle with clear,
\* with or without add_en in that cycle; the result output is the stored
\* accumulator in a cycle without add_en and the stored accumulator plus the
\* partial sum in a cycle with add_en.
C19_ClearDominatesAdd == [][C19_AccumulatorStep]_vars

\* clear and add_en together, on an accumulator and a partial sum that are
\* not zero and do not cancel.
C19_Witness ==
    /\ mac_hist.on
    /\ mac_cfg.switch_PorD = 0
    /\ mac_in.clear
    /\ mac_in.add_en
    /\ mac.accumulator # 0
    /\ mac.add_sum # 0
    /\ mac.accumulator + mac.add_sum # 0

(***************************************************************************)
(* acc_done of the Sequencer (SpecSeq)                                    *)
(***************************************************************************)
\* C20: for a batch length K of 1 or more that the counter can hold,
\* acc_done is high exactly in the cycles with mul_done in which the pulse
\* is the K-th, 2K-th, ... since the last restart.
C20_AccDoneEveryKthMulDone ==
    LET K == BatchLength(cfg)
    IN  K >= 1 /\ K < Pow2(InputDepthWidth) =>
            (acc_done <=> mul_done /\ hist.muls = K - 1)

\* The second pulse of a batch of two since a restart that hit the run in
\* progress.
C20_Witness ==
    /\ BatchLength(cfg) = 2
    /\ hist.aborted
    /\ mul_done
    /\ acc_done
    /\ hist.muls = 1

(***************************************************************************)
(* mul_done against gate (SpecRun)                                        *)
(***************************************************************************)
\* Gate cycles among the last n cycles
GatesInLast(n) == Cardinality({k \in 1..n : hist.gate_ago[k]})

\* C21: mul_done is the gate of three cycles ago in pointwise mode and of
\* five cycles ago in depthwise mode (low while fewer cycles have passed),
\* so the gate cycles that have not yet given their mul_done pulse are those
\* of the last three or five cycles, and the mul_done pulses counted never
\* exceed the gate cycles counted.
C21_MulDoneIsDelayedGate ==
    LET N == IF cfg.switch_PorD = 0 THEN 3 ELSE 5
    IN  /\ mul_done = hist.gate_ago[N]
        /\ hist.gates - hist.muls = GatesInLast(N)
        /\ hist.muls + Count(mul_done) <= hist.gates

\* Both modes are seen with a pulse that follows a gate cycle, itself
\* followed by cycles without gate: here the pointwise one.
C21_Witness ==
    /\ cfg.switch_PorD = 0
    /\ mul_done
    /\ hist.gate_ago[3]
    /\ ~hist.gate_ago[2]
    /\ ~hist.gate_ago[1]
    /\ hist.gate_ago[5]
    /\ hist.muls >= 1

(***************************************************************************)
(* Specification of a Delayer on its own: the pp_delay instance of the    *)
(* Sequencer, its input driven freely and its cycles input held at any    *)
(* value of the 4-bit signal.                                              *)
(***************************************************************************)
\* Largest value of cycles = Signal(4)
DelayerMaxCycles == 15

\* ago[k]: the input of k cycles ago, kept for the k up to cycles
DelayHist_reset == [ ago |-> [k \in 1..DelayerMaxCycles |-> FALSE] ]

DelayHist_next(h, input, cycles) ==
    [ ago |-> [k \in 1..DelayerMaxCycles |->
                  IF k > cycles THEN FALSE
                  ELSE IF k = 1 THEN input
                  ELSE h.ago[k - 1]] ]

InitDelay ==
    /\ seq = Sequencer_reset
    /\ cfg \in { [ switch_PorD |-> 0, num_tile |-> 0, filter_value_words |-> 2,
                   input_depth_words |-> 2, pp_cycles |-> n ] :
                 n \in 0..DelayerMaxCycles }
    /\ hist = DelayHist_reset
    /\ seq_in \in [ input : BOOLEAN ]
    /\ InsParked
    /\ FsParked
    /\ CfuParked
    /\ MacParked
    /\ OqParked
    /\ BtwParked

DelayTick ==
    /\ seq' = [seq EXCEPT !.pp_delay = Delayer_next(@, seq_in.input)]
    /\ hist' = DelayHist_next(hist, seq_in.input, cfg.pp_cycles)
    /\ seq_in' \in [ input : BOOLEAN ]
    /\ UNCHANGED <<cfg, insVars, fsVars, cfuVars, macVars, oqVars, btwVars>>

NextDelay == DelayTick

SpecDelay == InitDelay /\ [][NextDelay]_vars

\* C22: whatever value N the cycles input is held at, the output in a cycle
\* is the input of N cycles before, and low while fewer than N cycles have
\* passed.
C22_OutputIsInputDelayedByCycles ==
    Delayer_output(seq.pp_delay, cfg.pp_cycles)
        = IF cfg.pp_cycles = 0 THEN seq_in.input
          ELSE hist.ago[cfg.pp_cycles]

(***************************************************************************)
(* Specification of an UpCounter on its own: the four_count instance of   *)
(* the Sequencer (UpCounter(3)), its en and restart driven freely and its *)
(* max input held at any value from 1 that its three bits hold.            *)
(***************************************************************************)
\* Enables the environment issues between two restarts
MaxCounterEnables == 15

\* enables: enables since the last restart
CounterHist_reset == [ enables |-> 0 ]

CounterHist_next(h, i) ==
    [ enables |-> IF i.restart THEN 0
                  ELSE IF i.en THEN h.enables + 1
                  ELSE h.enables ]

CounterInputs(h) ==
    { i \in [ en : BOOLEAN, restart : BOOLEAN ] :
        i.en /\ ~i.restart => h.enables < MaxCounterEnables }

InitCounter ==
    /\ seq = Sequencer_reset
    /\ cfg \in [ max : 1..(Pow2(FourCountWidth) - 1) ]
    /\ hist = CounterHist_reset
    /\ seq_in \in CounterInputs(hist)
    /\ InsParked
    /\ FsParked
    /\ CfuParked
    /\ MacParked
    /\ OqParked
    /\ BtwParked

CounterTick ==
    /\ seq' = [seq EXCEPT !.four_count =
                   UpCounter_next(@, seq_in.en, seq_in.restart, cfg.max,
                                  FourCountWidth)]
    /\ hist' = CounterHist_next(hist, seq_in)
    /\ seq_in' \in CounterInputs(hist')
    /\ UNCHANGED <<cfg, insVars, fsVars, cfuVars, macVars, oqVars, btwVars>>

NextCounter == CounterTick

SpecCounter == InitCounter /\ [][NextCounter]_vars

\* One clock edge of the counter; with e enables since the last restart the
\* counter has wrapped e div max times and counted e mod max enables since.
C23_CounterStep ==
    LET done == UpCounter_done(seq.four_count, seq_in.en, cfg.max)
    IN  /\ done <=> seq_in.en /\ hist.enables % cfg.max = cfg.max - 1
        /\ seq.four_count = hist.enables % cfg.max
        /\ seq.four_count \in 0..(cfg.max - 1)
        /\ seq_in.restart => seq'.four_count = 0

\* C23: for every max from 1, done is high exactly in the cycles with en in
\* which max - 1 enables have been counted since the last wrap or restart,
\* count stays within 0..max-1, and after a cycle with restart count is 0,
\* with or without en in that cycle.
C23_DoneAtEveryMaxthEnable == [][C23_CounterStep]_vars

\* restart together with the enable that would have taken the counter to 3,
\* after a wrap, for the largest max.
C23_Witness ==
    /\ cfg.max = Pow2(FourCountWidth) - 1
    /\ hist.enables = cfg.max + 2
    /\ seq.four_count = 2
    /\ seq_in.en
    /\ seq_in.restart

(***************************************************************************)
(* Specification of the ByteToWordShifter: shift_en and in_value are      *)
(* driven freely.                                                          *)
(***************************************************************************)
\* Shifts in one behaviour
MaxBtwShifts == 5

\* The bytes of ByteToWordShifterTest: 0x11, 0x22, 0x33 and 0x99
BtwValues == {17, 34, 51, 153}

\* btw_hist: the bytes shifted in so far, the first one first
BtwInputs(h) ==
    { i \in [ shift_en : BOOLEAN, in_value : BtwValues ] :
        i.shift_en => Len(h) < MaxBtwShifts }

InitBtw ==
    /\ btw = ByteToWordShifter_reset
    /\ btw_hist = <<>>
    /\ btw_in \in BtwInputs(btw_hist)
    /\ SeqParked
    /\ InsParked
    /\ FsParked
    /\ CfuParked
    /\ MacParked
    /\ OqParked

BtwTick ==
    /\ btw' = ByteToWordShifter_next(btw, btw_in)
    /\ btw_hist' = IF btw_in.shift_en THEN Append(btw_hist, btw_in.in_value)
                   ELSE btw_hist
    /\ btw_in' \in BtwInputs(btw_hist')
    /\ UNCHANGED <<seqVars, insVars, fsVars, cfuVars, macVars, oqVars>>

NextBtw == BtwTick

SpecBtw == InitBtw /\ [][NextBtw]_vars

\* The last four of the bytes b, after four zero bytes, the earliest first
LastFour(b) ==
    LET p == <<0, 0, 0, 0>> \o b
    IN  [k \in 1..4 |-> p[Len(p) - 4 + k]]

\* C24: the result is the word of the last four bytes shifted in, the byte of
\* the current cycle included when shift_en is high, with the earliest of the
\* four in the low lane; without shift_en it is the word of the cycle before.
C24_ResultIsLastFourBytes ==
    ByteToWordShifter_result(btw, btw_in)
        = LastFour(IF btw_in.shift_en
                   THEN Append(btw_hist, btw_in.in_value) ELSE btw_hist)

\* Four different bytes have been shifted in, and the cycle is idle.
C24_Witness ==
    /\ Len(btw_hist) = 4
    /\ Cardinality({btw_hist[k] : k \in 1..4}) = 4
    /\ ~btw_in.shift_en
    /\ ByteToWordShifter_result(btw, btw_in) = btw_hist
    /\ btw_hist[1] = 17
    /\ btw_hist[4] = 153

(***************************************************************************)
(* Specification of the Sequencer for termination: no restart, no bound   *)
(* on the number of runs, and every value of the filter word count from 0 *)
(* on.  The input store and the FIFO hold the sequencer up for at most     *)
(* MaxLiveStall cycles in a row.  The clock is the only scheduler, so the *)
(* clock edge is weakly fair.                                              *)
(***************************************************************************)
\* Consecutive cycles without in_store_ready and fifo_has_space together
MaxLiveStall == 1

\* Pointwise configurations hold num_tile at 1, which keeps fnext_count (not
\* read in pointwise mode) at 0; depthwise configurations hold the word
\* counts at 2.
LiveConfigs ==
    { c \in [ switch_PorD : {0, 1},
              num_tile : 1..2,
              filter_value_words : {0, 2, 4},
              input_depth_words : {2},
              pp_cycles : {1} ] :
        /\ c.switch_PorD = 0 => c.num_tile = 1
        /\ c.switch_PorD = 1 => c.filter_value_words = 2 }

LiveInputs ==
    [ start_run : BOOLEAN, restart : {FALSE},
      in_store_ready : BOOLEAN, fifo_has_space : BOOLEAN ]

\* stall: the cycles up to the current one in which in_store_ready and
\* fifo_has_space were not true together, since the last one in which they
\* were
LiveHist_next(h, n) ==
    [ stall |-> IF n.in_store_ready /\ n.fifo_has_space THEN 0
                ELSE h.stall + 1 ]

InitLive ==
    /\ seq = Sequencer_reset
    /\ cfg \in LiveConfigs
    /\ seq_in \in LiveInputs
    /\ hist = LiveHist_next([stall |-> 0], seq_in)
    /\ hist.stall <= MaxLiveStall
    /\ InsParked
    /\ FsParked
    /\ CfuParked
    /\ MacParked
    /\ OqParked
    /\ BtwParked

LiveTick ==
    /\ seq' = Sequencer_next(seq, seq_in, cfg)
    /\ seq_in' \in LiveInputs
    /\ hist' = LiveHist_next(hist, seq_in')
    /\ hist'.stall <= MaxLiveStall
    /\ UNCHANGED <<cfg, insVars, fsVars, cfuVars, macVars, oqVars, btwVars>>

NextLive == LiveTick

SpecLive == InitLive /\ [][NextLive]_vars /\ WF_vars(LiveTick)

\* in_store_ready and fifo_has_space are true in the same cycle
ReadyAndSpace == seq_in.in_store_ready /\ seq_in.fifo_has_space

\* C25: if in_store_ready and fifo_has_space are true together infinitely
\* often, every start_run is followed by all_output_finished, after which
\* the running latch is 0, whatever maximum the count registers hold.
C25_RunEnds ==
    ([]<>ReadyAndSpace)
        => /\ seq_in.start_run ~> all_output_finished
           /\ all_output_finished ~> ~seq.running

\* The same for the configurations whose filter word counter has a maximum
\* of at least 1.
C25_RunEndsForNonZeroMaximum ==
    ([]<>ReadyAndSpace)
        => /\ (seq_in.start_run /\ Sequencer_f_max(cfg) >= 1)
                  ~> all_output_finished
           /\ all_output_finished ~> ~seq.running

(***************************************************************************)
(* Specification of the InputStoreSetter and the InputStore: software     *)
(* writes register 10 (input depth, one word), register 25 (input words)  *)
(* and register 112 (mark read finished); the Sequencer is idle.          *)
(***************************************************************************)
\* Writes to register 25, and to register 112, in one behaviour
MaxSetWords == 4

SetOps == {RegInputDepthWords, RegInputValue, RegMarkRead}

SetInputs(h, u) ==
    { o \in [ op : SetOps \cup {0}, in0 : {1}, space : {FALSE} ] :
        /\ u.busy => o.op = 0
        /\ o.op = RegInputDepthWords => h.issued[o.op] < 1
        /\ o.op \in {RegInputValue, RegMarkRead}
               => h.issued[o.op] < MaxSetWords }

SetWired ==
    /\ ins_in = Cfu_ins_in(cfu, cfu_in, ins, FALSE, FALSE)
    /\ ins_cfg = Cfu_ins_cfg(cfu, cfu_cfg)

InitSet ==
    /\ ins = InputStore_reset
    /\ cfu = Cfu_reset
    /\ cfu_cfg = [ switch_PorD |-> 0, num_tile |-> 0, offset |-> 0,
                   input_width |-> 2, pp_cycles |-> 1 ]
    /\ cfu_hist = CfuHist_reset
    /\ cfu_in \in SetInputs(cfu_hist, cfu)
    /\ ins_hist = InsHist_init(FALSE, 0)
    /\ SetWired
    /\ SeqParked
    /\ FsParked
    /\ MacParked
    /\ OqParked
    /\ BtwParked

\* One clock edge, followed by the instruction of the next cycle.
SetTick ==
    /\ ins' = InputStore_next(ins, ins_in, ins_cfg)
    /\ cfu' = Cfu_next(cfu, cfu_in, InputStore_w_ready(ins), FALSE)
    /\ cfu_hist' = CfuHist_next(cfu_hist, cfu_in)
    /\ cfu_in' \in SetInputs(cfu_hist', cfu')
    /\ ins_in' = Cfu_ins_in(cfu', cfu_in', ins', FALSE, FALSE)
    /\ ins_cfg' = Cfu_ins_cfg(cfu', cfu_cfg)
    /\ UNCHANGED <<cfu_cfg, ins_hist, seqVars, fsVars, macVars, oqVars, btwVars>>

NextSet == SetTick

SpecSet == InitSet /\ [][NextSet]_vars

\* C26: the InputStoreSetter reports done only in a cycle in which it
\* presents w_en while the InputStore shows w_ready, so that the word of
\* every register-25 write is taken by the store.
C26_DoneOnlyWhenStoreAccepts ==
    InputStoreSetter_done(cfu.waiting, cfu_in.op = RegInputValue,
                          InputStore_w_ready(ins))
        => /\ ins_in.w_en
           /\ InputStore_w_ready(ins)

\* A register-25 write that found the store not ready is not left
\* unanswered once the store is ready.
C26_HeldWordIsWrittenWhenReady ==
    cfu.waiting /\ cfu.busy /\ InputStore_w_ready(ins) => ins_in.w_en

\* One clock edge of the InputStore seen from the reader: a read-selected
\* buffer that is full makes r_ready high by the next cycle; r_ready stays
\* high; and an r_finished that leaves the other buffer full is followed by
\* a cycle in which the edge detector sees that buffer become full.  All
\* three unless r_finished or restart is asserted in the cycle.
C27_ReadyStep ==
    LET quiet == ~ins_in.r_finished /\ ~ins_in.restart
        other == ins.r_full[(1 - ins.r_curr_buf) + 1]
    IN  /\ InputStore_full(ins) /\ quiet => ins'.r_ready
        /\ ins.r_ready /\ quiet => ins'.r_ready
        /\ ins_in.r_finished /\ ~ins_in.restart /\ other
               => /\ ins'.r_curr_buf = 1 - ins.r_curr_buf
                  /\ InputStore_rising(ins')

\* C27: while the read-selected buffer is full and neither r_finished nor
\* restart occurs, r_ready is high from the next cycle on, which is at most
\* two cycles after the write or the r_finished that made the full buffer
\* the read-selected one, and stays high until r_finished or restart; the
\* buffer that was already full when r_finished flipped the read selector
\* is seen by the edge detector.
C27_FullBufferBecomesReady == [][C27_ReadyStep]_vars

\* r_ready was high on buffer 0 in the cycle before, r_finished flipped the
\* selector, and the edge detector now sees buffer 1 full.
C27_Witness ==
    /\ ins_hist.prev.ready
    /\ ins_hist.prev.buf = 0
    /\ ins.r_curr_buf = 1
    /\ ins.r_full = <<FALSE, TRUE>>
    /\ InputStore_rising(ins)
    /\ ~ins.r_ready

(***************************************************************************)
(* Specification of the InputStore as the Sequencer drives it: no restart, *)
(* and r_finished only in a cycle in which r_ready is high.                *)
(***************************************************************************)
InsRunInputs(h, s) ==
    { i \in InsInputs(h, s) : ~i.restart /\ (i.r_finished => s.r_ready) }

InitInsRun ==
    /\ ins = InputStore_reset
    /\ ins_cfg \in InsConfigs
    /\ ins_hist = InsHist_init(FALSE, 0)
    /\ ins_in \in InsRunInputs(ins_hist, ins)
    /\ SeqParked
    /\ FsParked
    /\ CfuParked
    /\ MacParked
    /\ OqParked
    /\ BtwParked

InsRunTick ==
    /\ ins' = InputStore_next(ins, ins_in, ins_cfg)
    /\ ins_hist' = InsHist_next(ins_hist, ins, ins_in, ins_cfg)
    /\ ins_in' \in InsRunInputs(ins_hist', ins')
    /\ UNCHANGED <<ins_cfg, seqVars, fsVars, cfuVars, macVars, oqVars, btwVars>>

NextInsRun == InsRunTick

SpecInsRun == InitInsRun /\ [][NextInsRun]_vars

\* C28: without restart and with r_finished asserted only while r_ready is
\* high, the read selector equals the write selector when none or both of
\* the buffers are full and selects the full buffer when exactly one is, so
\* the reader takes the buffers in the order the writer filled them.
C28_ReaderFollowsWriter ==
    IF ins.r_full[1] # ins.r_full[2] THEN ins.r_full[ins.r_curr_buf + 1]
    ELSE ins.r_curr_buf = ins.w_curr_buf

\* Both buffers are full for the second time round: the reader has finished
\* buffer 0 and is ready on buffer 1, the writer has filled buffer 0 again.
C28_Witness ==
    /\ ins.r_full = <<TRUE, TRUE>>
    /\ ins.r_curr_buf = 1
    /\ ins.w_curr_buf = 1
    /\ ins.r_ready

\* One clock edge of the InputStore with restart asserted leaves the store
\* empty.
C29_RestartStep ==
    ins_in.restart
        => /\ InsFlagsZeroed
           /\ InsSelectorsZeroed
           /\ InputStore_w_ready(ins')

\* C29: in the cycle after restart, whatever w_en, r_next and r_finished were
\* in the cycle of restart, both buffers are not full, w_ready is high,
\* r_ready is low, and the write address, the read address and both
\* selectors are 0.
C29_RestartEmptiesStore == [][C29_RestartStep]_vars

(***************************************************************************)
(* Specification of the filter StoreSetter with start and restart driven  *)
(* freely, also in the same cycle; the fetcher is not asked for words.    *)
(***************************************************************************)
\* Largest count up to which words are written
MaxSetterCount == 3

SetterInputs(s) ==
    { i \in [ restart : BOOLEAN, start : BOOLEAN, next : {FALSE},
              in0 : {FsWord(0, 0), FsWord(0, 1)} ] :
        i.start => s.count < MaxSetterCount }

InitSetter ==
    /\ fs = FilterStore_reset
    /\ fs_cfg \in FsConfigs
    /\ fs_hist = FsHist_init(FALSE)
    /\ fs_in \in SetterInputs(fs)
    /\ SeqParked
    /\ InsParked
    /\ CfuParked
    /\ MacParked
    /\ OqParked
    /\ BtwParked

SetterTick ==
    /\ fs' = FilterStore_next(fs, fs_in, fs_cfg)
    /\ fs_in' \in SetterInputs(fs')
    /\ UNCHANGED <<fs_cfg, fs_hist, seqVars, insVars, cfuVars, macVars, oqVars, btwVars>>

NextSetter == SetterTick

SpecSetter == InitSetter /\ [][NextSetter]_vars

\* One clock edge of the StoreSetter with restart asserted
C30_RestartStep ==
    fs_in.restart
        => /\ fs'.count = 0
           /\ StoreSetter_updated(fs_in.start, fs_in.restart)
           /\ FsEnabledBanks = {}
           /\ fs'.mem = fs.mem

\* C30: restart sets the count to 0 and raises updated in its cycle; a write
\* presented in the cycle of restart is discarded: no bank is enabled, the
\* memories are unchanged, and count becomes 0, not count + 1.
C30_RestartDiscardsWrite == [][C30_RestartStep]_vars

\* restart and a write in the same cycle, with words in the store; the word
\* presented is not the one at the address of the write.
C30_Witness ==
    /\ fs_in.restart
    /\ fs_in.start
    /\ fs.count = 2
    /\ fs.mem[3][0] # fs_in.in0

\* Bank readers pulsed by the fetcher in the cycle
FsPulsedReaders ==
    { n \in 0..3 : FilterValueFetcher_smr_next(fs, fs_in, fs_cfg, n) }

\* One clock edge seen from the read index of the fetcher.  The index is a
\* register of FsLimitRange values, so its advance is taken modulo that.
C31_FetchStep ==
    LET step == IF fs_cfg.switch_PorD = 0 THEN 2 ELSE 3
    IN  /\ fs_in.next /\ ~fs_in.restart =>
            /\ FsPulsedReaders = { (fs.r_addr + k) % 4 : k \in 0..(step - 1) }
            /\ Cardinality(FsPulsedReaders) = step
            /\ fs'.r_addr = IF fs.r_addr = FilterStore_limit(fs) - step THEN 0
                            ELSE (fs.r_addr + step) % FsLimitRange
        /\ ~fs_in.next =>
            /\ FsPulsedReaders = {}
            /\ ~fs_in.restart => fs'.r_addr = fs.r_addr

\* C31: a next without restart pulses exactly the readers of the banks
\* r_addr, r_addr + 1 (mod 4) in pointwise mode and r_addr, r_addr + 1,
\* r_addr + 2 (mod 4) in depthwise mode, and advances r_addr by 2 or by 3, to
\* 0 from limit - 2 or limit - 3; a cycle without next pulses no reader and,
\* without restart, leaves r_addr unchanged.
C31_NextPulsesWindowAndAdvances == [][C31_FetchStep]_vars

\* A depthwise next with the window wrapping round the banks: 3, 0 and 1.
C31_Witness ==
    /\ fs_cfg.switch_PorD = 1
    /\ fs_in.next
    /\ fs.r_addr = 3
    /\ FilterStore_limit(fs) = 6
    /\ FsPulsedReaders = {0, 1, 3}

\* C32: while the limit of the fetcher is a multiple of 4 (and not 0), the
\* read index r_addr is below it, in pointwise and in depthwise mode.  The
\* environment of the filter store writes no word between the first read
\* and the next restart, so the limit is constant while words are read.
C32_ReadIndexBelowLimit ==
    /\ FilterStore_limit(fs) % 4 = 0
    /\ FilterStore_limit(fs) > 0
    => fs.r_addr < FilterStore_limit(fs)

(***************************************************************************)
(* Specification of the filter store with words written at any time, also *)
(* between reads: start, restart and next are driven freely.              *)
(***************************************************************************)
\* Largest count up to which words are written
MaxRefillCount == 5

RefillInputs(s) ==
    { i \in [ restart : BOOLEAN, start : BOOLEAN, next : BOOLEAN,
              in0 : {FsWord(0, 0)} ] :
        i.start => s.count < MaxRefillCount }

\* fresh: the store has been updated since the last word was consumed
RefillHist_next(h, i) ==
    [ fresh |-> IF StoreSetter_updated(i.start, i.restart) THEN TRUE
                ELSE IF i.next THEN FALSE
                ELSE h.fresh ]

InitRefill ==
    /\ fs = FilterStore_reset
    /\ fs_cfg \in FsConfigs
    /\ fs_hist = [fresh |-> FALSE]
    /\ fs_in \in RefillInputs(fs)
    /\ SeqParked
    /\ InsParked
    /\ CfuParked
    /\ MacParked
    /\ OqParked
    /\ BtwParked

RefillTick ==
    /\ fs' = FilterStore_next(fs, fs_in, fs_cfg)
    /\ fs_hist' = RefillHist_next(fs_hist, fs_in)
    /\ fs_in' \in RefillInputs(fs')
    /\ UNCHANGED <<fs_cfg, seqVars, insVars, cfuVars, macVars, oqVars, btwVars>>

NextRefill == RefillTick

SpecRefill == InitRefill /\ [][NextRefill]_vars

\* One clock edge seen from an update: the four readers are restarted in the
\* cycle after it, and the first word consumed after it is consumed at
\* rotation index 0.
C33_UpdateStep ==
    /\ StoreSetter_updated(fs_in.start, fs_in.restart) =>
           /\ fs'.was_updated
           /\ \A k \in 0..3 :
                  SMR_mem_addr(fs'.smr[k + 1], fs'.was_updated,
                               FilterStore_smr_limit(fs', k), FsBankDepth) = 0
    /\ fs_hist.fresh /\ fs_in.next => fs.r_addr = 0

\* C33: after every update of the filter store (a word written, or restart)
\* the four bank readers are restarted in the following cycle, and r_addr
\* is 0 when the next word is consumed.
C33_UpdateRestartsFetching == [][C33_UpdateStep]_vars

(***************************************************************************)
(* The filter advance of the Sequencer                                     *)
(***************************************************************************)
filter_next == Sequencer_filter_next(seq, seq_in, cfg)

\* C34: in pointwise mode filter_next equals gate; in depthwise mode
\* filter_next is high in the num_tile-th gate cycle of every run of num_tile
\* gate cycles since the counters were last at zero and in no other cycle,
\* which is the cycle of all_output_finished.
C34_FilterNextOncePerRun ==
    /\ cfg.switch_PorD = 0 => (filter_next <=> gate)
    /\ cfg.switch_PorD = 1 =>
           /\ filter_next <=> (gate /\ hist.gates = cfg.num_tile - 1)
           /\ filter_next <=> all_output_finished

C34_Witness ==
    /\ cfg.switch_PorD = 1
    /\ cfg.num_tile = 2
    /\ hist.gates = 1
    /\ filter_next

(***************************************************************************)
(* The pointwise read address of the InputStore                            *)
(***************************************************************************)
\* One clock edge without restart and r_finished in pointwise mode: a read
\* (r_next and r_ready) moves the address by 2, or to 0 from
\* input_depth - 2; any other cycle leaves it alone.
InsPointwiseAddrStep ==
    IF InputStore_reading(ins, ins_in)
    THEN ins'.r_addr = (IF ins.r_addr = ins_cfg.input_depth - 2 THEN 0
                        ELSE ins.r_addr + 2)
    ELSE ins'.r_addr = ins.r_addr

InsPointwiseQuiet ==
    /\ ins_cfg.switch_PorD = 0
    /\ ~ins_in.restart
    /\ ~ins_in.r_finished

MaxGatherWidth == 8

GatherConfigs ==
    { c \in [ switch_PorD : {1},
              input_depth : {MaxInputDepth},
              offset : {0},
              input_width : 1..MaxGatherWidth,
              pad : 0..3 ] :
        c.pad = Cfu_pad(c.input_width) }

InitGather ==
    /\ ins = InputStore_reset
    /\ ins_cfg \in GatherConfigs
    /\ ins_hist = InsHist_init(FALSE, 0)
    /\ ins_in \in InsInputs(ins_hist, ins)
    /\ SeqParked
    /\ FsParked
    /\ CfuParked
    /\ MacParked
    /\ OqParked
    /\ BtwParked

SpecGather == InitGather /\ [][NextIns]_vars

\* The four word addresses of the 2x2 neighbourhood under the read address.
GatherAddrs ==
    LET row == ins_cfg.input_width + ins_cfg.pad
    IN  <<ins.r_addr, ins.r_addr + 1, ins.r_addr + row, ins.r_addr + row + 1>>

\* C36: input_width + pad is 2 modulo 4 for every input_width, the four
\* addresses of the gather lie in four distinct banks, and in a reading
\* cycle every one of these banks is given the address of its own word.
C36_GatherBanksDistinct ==
    /\ (ins_cfg.input_width + ins_cfg.pad) % 4 = 2
    /\ Cardinality({GatherAddrs[k] % 4 : k \in 1..4}) = 4
    /\ InputStore_reading(ins, ins_in) =>
           \A k \in 1..4 :
               InputStore_mem_addrs(ins, ins_in, ins_cfg, GatherAddrs[k] % 4)
                   = (GatherAddrs[k] \div 4) % InsHalfDepth

C36_Witness ==
    /\ ins_cfg.input_width = 7
    /\ ins.r_addr % 4 = 3
    /\ InputStore_reading(ins, ins_in)
    /\ InputStore_mem_addrs(ins, ins_in, ins_cfg, 0) = 1

(***************************************************************************)
(* The offset of the depthwise input transform                             *)
(***************************************************************************)
\* The sixteen linear combinations of the depthwise input transform, applied
\* to sixteen integers b[0] .. b[15] in place of the bytes of tmp.
InputStore_combine(b) ==
    << b[0] + (-b[8] - b[4]) + b[12],
       b[1] - b[9] + b[4] - b[12],
       b[2] + (b[8] - b[6]) - b[12],
       b[3] + b[9] + b[6] + b[12],
       -b[1] + b[9] + b[4] - b[12],
       b[1] - b[9] - b[5] + b[13],
       -b[3] - b[9] + b[6] + b[12],
       b[3] + b[9] - b[7] - b[13],
       -b[2] + b[8] + b[6] - b[12],
       -b[3] + b[9] - b[6] + b[12],
       b[2] - b[10] - b[6] + b[14],
       b[3] - b[11] + b[6] - b[14],
       b[3] - b[9] - b[6] + b[12],
       -b[3] + b[9] + b[7] - b[13],
       -b[3] + b[11] + b[6] - b[14],
       b[3] - b[11] - b[7] + b[15] >>

\* The tile the InputStore shows in this cycle.
WinoTileNow ==
    IF mac_in.present THEN WinoTileWords(mac_cfg.tile) ELSE WinoZeroTile

\* C37: the sixteen lanes of r_data are the raw transform of the tile with
\* the offset entering through lane 3 alone, as 4 * offset, and they are
\* the lanes that the transform of the bytes with the offset added to each
\* of them gives.
C37_OffsetEntersThroughLaneThree ==
    LET raw  == InputStore_transform(WinoTileNow)
        with == InputStore_combine(
                    [k \in 0..15 |-> CatByte(WinoTileNow, k) + mac_cfg.offset])
    IN  \A n \in 1..16 :
            /\ mac_in.i_data[n] =
                   Signed12(raw[n] + (IF n = 4 THEN 4 * mac_cfg.offset ELSE 0))
            /\ mac_in.i_data[n] = Signed12(with[n])

C37_Witness ==
    /\ mac_in.present
    /\ mac_cfg.offset = 128
    /\ mac_cfg.tile = WinoTiles - 1
    /\ mac_in.i_data[4] = InputStore_transform(WinoTileNow)[4] + 512
    /\ \E n \in 1..16 : n # 4 /\ mac_in.i_data[n] # 0

(***************************************************************************)
(* The widths of the arithmetic path: the input lanes of the InputStore,   *)
(* the filter lanes of the FilterValueFetcher, the sixteen products and    *)
(* the sums of AccOrTrans, in both modes, for the bytes that drive each    *)
(* lane to its largest and smallest value and for the offsets at the ends  *)
(* of -256..255.  A tile, a filter and the offset are chosen before the   *)
(* first cycle; in each cycle the stores show the chosen words or zeros.   *)
(***************************************************************************)
\* Patterns of bytes: pattern p < 16 drives lane p of the depthwise
\* transforms to an extreme (the bytes that enter the lane with a positive
\* sign at one end of the byte range, those with a negative sign at the
\* other end, the rest 0), pattern 16 sets every byte to the same end, and
\* further patterns are bytes that are all different.
FitPatterns == 17

FitOffsets == {-256, 0, 255}

\* Sixteen bytes as four words, twelve bytes as three words.
FitWords(b, n) == [w \in 1..n |-> [j \in 1..4 |-> b[4 * (w - 1) + j - 1]]]

FitUnit(t, n) == FitWords([k \in 0..15 |-> IF k = t THEN 1 ELSE 0], n)

\* The end of the byte range chosen by h, as the memory holds it.
FitEnd(h) == IF h THEN 127 ELSE 128

\* The byte that drives a lane to the end h through the coefficient c.
FitDrive(c, h) == IF c > 0 THEN FitEnd(h) ELSE IF c < 0 THEN FitEnd(~h) ELSE 0

\* FitFilterCoeffs[t][n]: the coefficient of tap t in lane n of the
\* depthwise filter lanes, read off the lanes of the filter whose tap t
\* is 1.
FitFilterCoeffs == [t \in 0..15 |-> Wino_f_data(FitUnit(t, 3))]

\* FitTileCoeffs[t][n]: the coefficient of byte t in lane n of the
\* depthwise input lanes.
FitTileCoeffs == [t \in 0..15 |-> InputStore_transform(FitUnit(t, 4))]

FitTiles ==
    [p \in 0..FitPatterns, h \in BOOLEAN |->
        FitWords([t \in 0..15 |->
                     IF p < 16 THEN FitDrive(FitTileCoeffs[t][p + 1], h)
                     ELSE IF p = 16 THEN FitEnd(h)
                     ELSE ((p * 53 + t * 71 + 13) * 41) % 256], 4)]

FitFilters ==
    [p \in 0..FitPatterns, h \in BOOLEAN |->
        FitWords([t \in 0..15 |->
                     IF p < 16 THEN FitDrive(FitFilterCoeffs[t][p + 1], h)
                     ELSE IF p = 16 THEN FitEnd(h)
                     ELSE ((p * 31 + t * 67 + 29) * 37) % 256], 3)]

FitTileWords(p, h) == FitTiles[p, h]

FitFilterWords(p, h) == FitFilters[p, h]

FitConfigs ==
    [ switch_PorD : {0, 1}, offset : FitOffsets,
      pattern : 0..(FitPatterns - 1), tile_high : BOOLEAN,
      filter_high : BOOLEAN ]

\* The words the stores show: the chosen ones, or zeros.
FitTileShown(c, p) ==
    IF p THEN FitTileWords(c.pattern, c.tile_high) ELSE WinoZeroTile

FitFilterShown(c, p) ==
    IF p THEN FitFilterWords(c.pattern, c.filter_high) ELSE WinoZeroFilter

\* i_data and f_data as the stores show them one cycle after tmp held the
\* words: the transforms in depthwise mode, byte + offset and the bytes in
\* pointwise mode.
Fit_i_data(tw, c) ==
    IF c.switch_PorD = 1 THEN Wino_i_data(tw, c)
    ELSE Mac_i_data([n \in Lanes |-> CatByte(tw, n - 1)], c)

Fit_f_data(fw, c) ==
    IF c.switch_PorD = 1 THEN Wino_f_data(fw)
    ELSE Mac_f_data([n \in Lanes |-> CatByte(fw, n - 1)])

FitInputs(c) ==
    { [ present |-> p, add_en |-> FALSE, clear |-> FALSE,
        i_data |-> Fit_i_data(FitTileShown(c, p), c),
        f_data |-> Fit_f_data(FitFilterShown(c, p), c) ] : p \in BOOLEAN }

InitFit ==
    /\ mac = Mac_reset
    /\ mac_cfg \in FitConfigs
    /\ mac_hist = MacHist_init(FALSE)
    /\ mac_in \in FitInputs(mac_cfg)
    /\ SeqParked
    /\ InsParked
    /\ FsParked
    /\ CfuParked
    /\ OqParked
    /\ BtwParked

\* One clock edge of the multipliers and of AccOrTrans, followed by the
\* words the stores show in the next cycle.
FitTick ==
    /\ mac' = Mac_next(mac, mac_in, mac_cfg)
    /\ mac_in' \in FitInputs(mac_cfg)
    /\ UNCHANGED <<mac_cfg, mac_hist, seqVars, insVars, fsVars, cfuVars,
                   oqVars, btwVars>>

NextFit == FitTick

SpecFit == InitFit /\ [][NextFit]_vars

\* x is a value of a signed signal of the given width.
FitsSigned(x, width) ==
    /\ -Pow2(width - 2) <= x \div 2
    /\ x \div 2 < Pow2(width - 2)

RECURSIVE FitFilterSum(_, _, _)
\* The sum over the taps 0..t-1 of coefficient times tap, in lane n.
FitFilterSum(fw, n, t) ==
    IF t = 0 THEN 0
    ELSE FitFilterSum(fw, n, t - 1)
           + FitFilterCoeffs[t - 1][n] * CatByte(fw, t - 1)

\* The lanes as integers, with no width applied.
FitExact_i(tw, c) ==
    IF c.switch_PorD = 1
    THEN InputStore_combine([k \in 0..15 |-> CatByte(tw, k) + c.offset])
    ELSE [n \in Lanes |-> CatByte(tw, n - 1) + c.offset]

FitExact_f(fw, c) ==
    IF c.switch_PorD = 1 THEN [n \in Lanes |-> FitFilterSum(fw, n, 12)]
    ELSE [n \in Lanes |-> CatByte(fw, n - 1)]

\* C38: no value of the arithmetic path overflows its register.  The
\* filter lanes and the input lanes (lane 3 with 4 * offset, the pointwise
\* byte + offset) are the integers computed without any width and fit
\* signed 12 bits, every product is the integer product of its operands
\* and fits signed 24 bits, the pointwise sum of eight products fits signed
\* 28 bits, and the depthwise sums of eight products and of nine fit
\* signed 32 bits.
C38_NoOverflow ==
    LET tw == FitTileShown(mac_cfg, mac_in.present)
        fw == FitFilterShown(mac_cfg, mac_in.present)
        ei == FitExact_i(tw, mac_cfg)
        ef == FitExact_f(fw, mac_cfg)
        p  == [n \in Lanes |-> mac.i_tmp[n] * mac.f_tmp[n]]
        y  == AccOrTrans_Y_tmp(p)
    IN  /\ mac_in.i_data = ei
        /\ mac_in.f_data = ef
        /\ Mul8Pipeline_products(mac) = p
        /\ \A n \in Lanes :
               /\ FitsSigned(ei[n], 12)
               /\ FitsSigned(ef[n], 12)
               /\ FitsSigned(p[n], 24)
        /\ mac_cfg.switch_PorD = 0 =>
               /\ AccOrTrans_add_sum(p) = SumLanes(p, 8)
               /\ FitsSigned(SumLanes(p, 8), 28)
        /\ mac_cfg.switch_PorD = 1 =>
               \A k \in 1..4 :
                   /\ FitsSigned(y[k], 32)
                   /\ FitsSigned(mac.Y_tmp[k] + mac.late[k], 32)
                   /\ FitsSigned(mac.Y_tmp[k] - mac.late[k], 32)

C38_Witness ==
    /\ mac_cfg.switch_PorD = 1
    /\ mac_cfg.offset = -256
    /\ mac.i_tmp[4] = -1536
    /\ mac.f_tmp[4] = -1152
    /\ Mul8Pipeline_products(mac)[4] = 1769472
    /\ mac.Y[1] # 0
====
